---- MODULE Spec2Model ----
(***************************************************************************)
(* Interview session engine of ExplainItBack: the session store           *)
(* (src/lib/redis.ts), the session manager                                 *)
(* (src/lib/interview/sessionManager.ts), the boundary handlers            *)
(* (src/app/api/interview/*/route.ts) and the answer evaluator.            *)
(*                                                                         *)
(* Each boundary request is one action: the handler runs from its first    *)
(* line to its response, every manager call it makes included.  What the   *)
(* collaborators return (hosting API, completion service, Redis server)    *)
(* is chosen with \E.                                                      *)
(***************************************************************************)
EXTENDS Integers, Sequences, FiniteSets, TLC

\* ------------------------------------------------------------------ bounds
MaxSessions == 1        \* sessions created (uuid v4 ids are modelled as 1..MaxSessions)
MaxQuestions == 2       \* questions generated (uuid v4 ids are modelled as 1..MaxQuestions)
MaxAnalyses == 1        \* Analyze requests that reach ingestion, per session
MaxAnswers == 1         \* SubmitAnswer requests that pass the question check, per session
MaxHints == 1           \* RequestHint requests that append a hint, per session
MaxEnds == 1            \* EndSession requests that reach the session, per session
MaxLine == 3            \* last line a snippet may start or end at; replies name 0..MaxLine+1
MaxReplyAnnotations == 2 \* annotations in one reply of the completion service
MaxAnnotations == 3     \* annotations on a snippet beyond which no line is highlighted
MaxHintLevel == 12      \* hint levels of a request are drawn from -MaxHintLevel..MaxHintLevel, in halves
MaxScope == 1           \* directories in the scope of one ingestion
MaxDescriptors == 2     \* snippet descriptors in one reply of the completion service
MaxReanalyses == 2      \* Analyze requests that reach ingestion, per session, when analysis is repeated
MaxRateLimit == 2       \* maxRequests passed to checkRateLimit: 1..MaxRateLimit
RateWindowMs == 2       \* windowMs passed to checkRateLimit, in milliseconds
MaxRateTime == 6        \* the clock of the rate limiter runs from 0 to MaxRateTime
MaxRateCalls == 4       \* calls of checkRateLimit made
MaxAttempts == 4        \* maxAttempts given to retryWithBackoff: 1..MaxAttempts
MaxHintRequests == 4    \* hint requests that append a hint, per session, when hints are asked repeatedly
ScoreOvershoot == 50    \* how far outside [0,100] an upstream score is drawn

\* ------------------------------------------------------- program constants
\* the hints the client counts for one question (hintCount never exceeds it)
HintsPerQuestion == 3
SESSION_TTL == 60 * 60 * 24
\* the lines of the snippet made of a related file
FallbackLines == 30
\* the size above which a file is not ingested
MAX_FILE_SIZE == 100000
SessionTtlMs == SESSION_TTL * 1000

\* null of JavaScript, for record-valued fields
NULL == [null |-> TRUE]
\* a missing or empty request field (falsy in the handlers' !sessionId tests)
NoId == 0

SessionIds == 1..MaxSessions
QuestionIds == 1..MaxQuestions
\* instants of Date.now() the clock visits: a write at 0 is one TTL old, then older
Times == {0, SessionTtlMs, SessionTtlMs + 1}
\* directory scopes a client sends
DirChoices == {<<>>, <<"src">>}
\* what fetchRepository returns: the (possibly empty) list of ingested files
FileLists == {<<>>, <<"a.ts">>}
Scores == (0 - ScoreOvershoot)..(100 + ScoreOvershoot)
\* scores the completion service returns while a session is driven
SessionScores == {0 - 10, 150}

VARIABLES
  nodeEnv,          \* process.env.NODE_ENV
  forceRedis,       \* process.env.FORCE_REDIS === 'true'
  useInMemoryStoreEnv, \* process.env.USE_IN_MEMORY_STORE === 'true'
  instance,         \* RedisClient.instance: "null" | "redis" | "memory"
  useInMemory,      \* RedisClient.useInMemory
  globalInstance,   \* global.__redisClientInstance: "undefined" | "redis" | "memory"
  mem,              \* global.__inMemoryStore: key -> {value, expiry}
  rds,              \* the keys held by the Redis server: key -> {value, expiry}
  redisHealth,      \* "up" | "down" (connect fails) | "flaky" (connected, commands fail)
  now,              \* Date.now()
  sessionsCreated,  \* uuids handed out as session ids
  questionsGenerated, \* uuids handed out as question ids
  response,         \* the response of the request handled in this step
  upstream,         \* the completion service's reply given to evaluateAnswer
  evaluation,       \* what evaluateAnswer returned for it
  snippet,          \* the CodeSnippet the annotator is given and returns
  hintCall,         \* the hintLevel of a hint request and what the route makes of it
  inFlight,          \* the session each in-flight mutation read and has yet to write
  generation,        \* the reply given to generateQuestion, the cache it reads and the snippets it returns
  ingestion,         \* what the hosting API does for one fetchRepository call, and what the call returns
  annotateCall,      \* the snippets and replies of the last annotateAllSnippets call of a handler
  kv,                \* the reference TTL store, the last call made on both stores and what each returned
  rate,              \* rateLimitStore, the limits the route passes and the calls of checkRateLimit made so far
  retry,             \* one call of retryWithBackoff: its options, loop variable, the outcomes of fn and the delays computed
  suspended         \* the request that passed its checks and awaits the completion service, with the session it read

vars == <<nodeEnv, forceRedis, useInMemoryStoreEnv, instance, useInMemory,
          globalInstance, mem, rds, redisHealth, now, sessionsCreated,
          questionsGenerated, response, upstream, evaluation, snippet, hintCall,
          inFlight,
          generation,
          ingestion,
          annotateCall,
          kv,
          rate,
          retry,
          suspended>>

\* The registers of the library functions that are checked on their own.
libVars == <<upstream, evaluation, snippet, hintCall, inFlight, generation, ingestion, annotateCall, kv, rate, retry, suspended>>

envVars == <<nodeEnv, forceRedis, useInMemoryStoreEnv>>

\* The store-side state a manager call reads and writes, threaded by value
\* through the calls of one handler.
World == [instance |-> instance, useInMemory |-> useInMemory,
          globalInstance |-> globalInstance, mem |-> mem, rds |-> rds]

SetWorld(w) ==
  /\ instance' = w.instance
  /\ useInMemory' = w.useInMemory
  /\ globalInstance' = w.globalInstance
  /\ mem' = w.mem
  /\ rds' = w.rds

IsDev == nodeEnv = "development"

\* F applied to the value of v, computed once
Bind(v, F(_)) == CHOOSE r \in {F(x) : x \in {v}} : TRUE

\* ------------------------------------------------------------ InMemoryStore
\* InMemoryStore.get as it would be if a read renewed the expiry of the item
MemGetRenewing(w, key) ==
  IF w.mem[key] = NULL THEN [w |-> w, val |-> NULL, threw |-> FALSE]
  ELSE IF now > w.mem[key].expiry
       THEN [w |-> [w EXCEPT !.mem[key] = NULL], val |-> NULL, threw |-> FALSE]
       ELSE [w |-> [w EXCEPT !.mem[key].expiry = now + SESSION_TTL * 1000],
             val |-> w.mem[key].value, threw |-> FALSE]

\* InMemoryStore.get: an expired item is deleted and reported absent.
MemGet(w, key) ==
  LET item == w.mem[key] IN
  IF item = NULL THEN [w |-> w, val |-> NULL, threw |-> FALSE]
  ELSE IF now > item.expiry
       THEN [w |-> [w EXCEPT !.mem[key] = NULL], val |-> NULL, threw |-> FALSE]
       ELSE [w |-> w, val |-> item.value, threw |-> FALSE]

\* InMemoryStore.setex
MemSetex(w, key, seconds, value) ==
  [w |-> [w EXCEPT !.mem[key] = [value |-> value, expiry |-> now + seconds * 1000]],
   threw |-> FALSE]

\* InMemoryStore.del: Map.delete reports whether the key was in the map
MemDel(w, key) ==
  [w |-> [w EXCEPT !.mem[key] = NULL],
   val |-> IF w.mem[key] = NULL THEN 0 ELSE 1, threw |-> FALSE]

\* ------------------------------------------------------------- Redis server
\* GET on the server: a key past its TTL is gone.
RdsGet(w, key) ==
  LET item == w.rds[key] IN
  IF item = NULL \/ now > item.expiry
  THEN [w |-> w, val |-> NULL, threw |-> FALSE]
  ELSE [w |-> w, val |-> item.value, threw |-> FALSE]

\* SETEX on the server
RdsSetex(w, key, seconds, value) ==
  [w |-> [w EXCEPT !.rds[key] = [value |-> value, expiry |-> now + seconds * 1000]],
   threw |-> FALSE]

\* DEL on the server: the number of live keys removed
RdsDel(w, key) ==
  [w |-> [w EXCEPT !.rds[key] = NULL],
   val |-> IF w.rds[key] = NULL \/ now > w.rds[key].expiry THEN 0 ELSE 1,
   threw |-> FALSE]

\* -------------------------------------------------------------- RedisClient
\* RedisClient.getInstance
getInstance(w) ==
  IF IsDev /\ w.globalInstance = "memory"
  THEN [w EXCEPT !.instance = "memory", !.useInMemory = TRUE]
  ELSE IF w.instance # "null" THEN w
  ELSE IF IsDev /\ (useInMemoryStoreEnv \/ ~forceRedis)
  THEN [w EXCEPT !.instance = "memory", !.useInMemory = TRUE,
                 !.globalInstance = "memory"]
  ELSE [w EXCEPT !.instance = "redis",
                 !.globalInstance = IF IsDev THEN "redis" ELSE @]

\* RedisClient.switchToInMemory
switchToInMemory(w) ==
  IF ~w.useInMemory /\ IsDev
  THEN IF w.instance # "memory"
       THEN [w EXCEPT !.instance = "memory", !.globalInstance = "memory",
                      !.useInMemory = TRUE]
       ELSE [w EXCEPT !.useInMemory = TRUE]
  ELSE w

\* connect as it would be if it tried the server again after the fallback:
\* without the early return on useInMemory, a reachable server is taken back.
connectRetrying(w) ==
  IF w.useInMemory /\ redisHealth = "up" /\ ~(IsDev /\ (useInMemoryStoreEnv \/ ~forceRedis))
  THEN [w |-> [w EXCEPT !.instance = "redis", !.useInMemory = FALSE,
                        !.globalInstance = IF IsDev THEN "redis" ELSE @],
        threw |-> FALSE]
  ELSE IF w.useInMemory THEN [w |-> w, threw |-> FALSE]
  ELSE LET w1 == getInstance(w) IN
       IF w1.instance = "memory" \/ w1.useInMemory
       THEN [w |-> w1, threw |-> FALSE]
       ELSE IF redisHealth # "down"
       THEN [w |-> w1, threw |-> FALSE]
       ELSE IF IsDev
       THEN [w |-> [w1 EXCEPT !.instance = "memory", !.useInMemory = TRUE,
                             !.globalInstance = "memory"],
             threw |-> FALSE]
       ELSE [w |-> w1, threw |-> TRUE]

\* RedisClient.connect: [w, threw]
connect(w) ==
  IF w.useInMemory THEN [w |-> w, threw |-> FALSE]
  ELSE LET w1 == getInstance(w) IN
       IF w1.instance = "memory" \/ w1.useInMemory
       THEN [w |-> w1, threw |-> FALSE]
       ELSE IF redisHealth # "down"
       THEN [w |-> w1, threw |-> FALSE]
       ELSE IF IsDev
       THEN [w |-> [w1 EXCEPT !.instance = "memory", !.useInMemory = TRUE,
                             !.globalInstance = "memory"],
             threw |-> FALSE]
       ELSE [w |-> w1, threw |-> TRUE]

\* redis.get of the exported wrapper: [w, val, threw]
redisGet(w, key) ==
  LET w1 == getInstance(w) IN
  IF w1.instance = "memory" THEN MemGet(w1, key)
  ELSE IF redisHealth = "up" THEN RdsGet(w1, key)
  ELSE IF IsDev /\ ~w1.useInMemory
       THEN MemGet(getInstance(switchToInMemory(w1)), key)
       ELSE [w |-> w1, val |-> NULL, threw |-> TRUE]

\* redis.setex of the exported wrapper: [w, threw]
redisSetex(w, key, seconds, value) ==
  LET w1 == getInstance(w) IN
  IF w1.instance = "memory" THEN MemSetex(w1, key, seconds, value)
  ELSE IF redisHealth = "up" THEN RdsSetex(w1, key, seconds, value)
  ELSE IF IsDev /\ ~w1.useInMemory
       THEN MemSetex(getInstance(switchToInMemory(w1)), key, seconds, value)
       ELSE [w |-> w1, threw |-> TRUE]

\* redis.del of the exported wrapper: [w, val, threw]
redisDel(w, key) ==
  LET w1 == getInstance(w) IN
  IF w1.instance = "memory" THEN MemDel(w1, key)
  ELSE IF redisHealth = "up" THEN RdsDel(w1, key)
  ELSE IF IsDev /\ ~w1.useInMemory
       THEN MemDel(getInstance(switchToInMemory(w1)), key)
       ELSE [w |-> w1, val |-> 0, threw |-> TRUE]

\* ---------------------------------------------------------- session manager
\* JSON.stringify / JSON.parse of a session: the stored string is a document
\* distinct from the object, and an absent key reads as null.
JSONstringify(session) == [json |-> session]
JSONparse(data) == data.json

\* createMessage as it would be if it kept only the type of the metadata
createMessageTypeOnly(role, content, metadata) ==
  [role |-> role, content |-> content, metadata |-> [type |-> metadata.type]]

\* createMessage (the uuid and the timestamp of a message are not modelled)
createMessage(role, content, metadata) ==
  [role |-> role, content |-> content, metadata |-> metadata]

WelcomeMessage ==
  createMessage("assistant", [text |-> "welcome"], [type |-> "system"])

\* ensureRedisConnected: [w, threw]
ensureRedisConnected(w) == connect(w)

\* getSession: [w, val]; every failure reads as null
getSession(w, sessionId) ==
  Bind(ensureRedisConnected(w), LAMBDA c :
    IF c.threw THEN [w |-> c.w, val |-> NULL]
    ELSE Bind(redisGet(c.w, sessionId), LAMBDA g :
           IF g.threw \/ g.val = NULL THEN [w |-> g.w, val |-> NULL]
           ELSE [w |-> g.w, val |-> JSONparse(g.val)]))

\* saveSession: [w, val, threw]; val is the session as saved
saveSession(w, session) ==
  Bind(ensureRedisConnected(w), LAMBDA c :
    IF c.threw THEN [w |-> c.w, val |-> session, threw |-> TRUE]
    ELSE Bind([session EXCEPT !.lastActivity = now], LAMBDA s1 :
         Bind(redisSetex(c.w, s1.sessionId, SESSION_TTL, JSONstringify(s1)), LAMBDA st :
           IF st.threw THEN [w |-> st.w, val |-> s1, threw |-> TRUE]
           ELSE IF IsDev
                THEN Bind(redisGet(st.w, s1.sessionId), LAMBDA v :
                       [w |-> v.w, val |-> s1, threw |-> v.threw])
                ELSE [w |-> st.w, val |-> s1, threw |-> FALSE])))

\* createSession (createdAt, never read or written again, is not modelled)
createSession(w, sessionId, repoUrl, repoId) ==
  saveSession(w, [sessionId |-> sessionId, repoUrl |-> repoUrl, repoId |-> repoId,
                  selectedDirectories |-> <<>>, messages |-> <<WelcomeMessage>>,
                  currentQuestion |-> NULL, questionsAsked |-> <<>>,
                  analysisCache |-> NULL, lastActivity |-> now,
                  status |-> "selecting_dirs"])

\* deleteSession: [w, val]; val is whether a key was removed
deleteSession(w, sessionId) ==
  Bind(ensureRedisConnected(w), LAMBDA c :
    IF c.threw THEN [w |-> c.w, val |-> FALSE]
    ELSE Bind(redisDel(c.w, sessionId), LAMBDA d :
           IF d.threw THEN [w |-> d.w, val |-> FALSE]
           ELSE [w |-> d.w, val |-> d.val > 0]))

\* the mutations' return on an absent session as it would be if they raised
AbsentRaising(w) == [w |-> w, val |-> NULL, threw |-> TRUE]

\* if (!session) return null, of every mutation
Absent(w) == [w |-> w, val |-> NULL, threw |-> FALSE]

\* addMessage as it would be if it put the message at the head of the log
addMessageAtHead(w, sessionId, message) ==
  Bind(getSession(w, sessionId), LAMBDA g :
    IF g.val = NULL THEN Absent(g.w)
    ELSE saveSession(g.w, [g.val EXCEPT !.messages = <<message>> \o @]))

\* addMessage
addMessage(w, sessionId, message) ==
  Bind(getSession(w, sessionId), LAMBDA g :
    IF g.val = NULL THEN Absent(g.w)
    ELSE saveSession(g.w, [g.val EXCEPT !.messages = Append(@, message)]))

\* updateSessionStatus
updateSessionStatus(w, sessionId, status) ==
  Bind(getSession(w, sessionId), LAMBDA g :
    IF g.val = NULL THEN Absent(g.w)
    ELSE saveSession(g.w, [g.val EXCEPT !.status = status]))

\* setSelectedDirectories as it would be if a new scope dropped the analysis
\* of the old one
setSelectedDirectoriesClearing(w, sessionId, directories) ==
  Bind(getSession(w, sessionId), LAMBDA g :
    IF g.val = NULL THEN Absent(g.w)
    ELSE saveSession(g.w, [g.val EXCEPT !.selectedDirectories = directories,
                                      !.analysisCache = NULL,
                                      !.status = "analyzing"]))

\* setSelectedDirectories
setSelectedDirectories(w, sessionId, directories) ==
  Bind(getSession(w, sessionId), LAMBDA g :
    IF g.val = NULL THEN Absent(g.w)
    ELSE saveSession(g.w, [g.val EXCEPT !.selectedDirectories = directories,
                                      !.status = "analyzing"]))

\* setAnalysisCache as it would be if it added the files of the analysis to
\* those of the cache it finds
setAnalysisCacheMerging(w, sessionId, analysis) ==
  Bind(getSession(w, sessionId), LAMBDA g :
    IF g.val = NULL THEN Absent(g.w)
    ELSE saveSession(g.w, [g.val EXCEPT
           !.analysisCache =
              IF @ = NULL THEN analysis
              ELSE [fileContents |-> @.fileContents \o analysis.fileContents],
           !.status = "active"]))

\* setAnalysisCache as it would be if it stored the analysis and left the
\* status to the caller
setAnalysisCacheOnly(w, sessionId, analysis) ==
  Bind(getSession(w, sessionId), LAMBDA g :
    IF g.val = NULL THEN Absent(g.w)
    ELSE saveSession(g.w, [g.val EXCEPT !.analysisCache = analysis]))

\* setAnalysisCache
setAnalysisCache(w, sessionId, analysis) ==
  Bind(getSession(w, sessionId), LAMBDA g :
    IF g.val = NULL THEN Absent(g.w)
    ELSE saveSession(g.w, [g.val EXCEPT !.analysisCache = analysis,
                                      !.status = "active"]))

\* setCurrentQuestion as it would be if it kept only the id of the question
\* it sets
setCurrentQuestionOnly(w, sessionId, question) ==
  Bind(getSession(w, sessionId), LAMBDA g :
    IF g.val = NULL THEN Absent(g.w)
    ELSE saveSession(g.w, [g.val EXCEPT !.currentQuestion = question,
                                      !.questionsAsked = <<question.id>>]))

\* setCurrentQuestion as it would be if it did not append the id of the
\* question to questionsAsked
setCurrentQuestionUnlisted(w, sessionId, question) ==
  Bind(getSession(w, sessionId), LAMBDA g :
    IF g.val = NULL THEN Absent(g.w)
    ELSE saveSession(g.w, [g.val EXCEPT !.currentQuestion = question]))

\* setCurrentQuestion
setCurrentQuestion(w, sessionId, question) ==
  Bind(getSession(w, sessionId), LAMBDA g :
    IF g.val = NULL THEN Absent(g.w)
    ELSE saveSession(g.w, [g.val EXCEPT !.currentQuestion = question,
                                      !.questionsAsked = Append(@, question.id)]))

\* clearCurrentQuestion
clearCurrentQuestion(w, sessionId) ==
  Bind(getSession(w, sessionId), LAMBDA g :
    IF g.val = NULL THEN Absent(g.w)
    ELSE saveSession(g.w, [g.val EXCEPT !.currentQuestion = NULL]))

\* endSession as it would be if it left the current question in place
endSessionKeepingQuestion(w, sessionId) ==
  Bind(getSession(w, sessionId), LAMBDA g :
    IF g.val = NULL THEN Absent(g.w)
    ELSE saveSession(g.w,
         [g.val EXCEPT
            !.messages = Append(@, createMessage("assistant",
                            [text |-> "ended", count |-> Len(g.val.questionsAsked)],
                            [type |-> "system"])),
            !.status = "ended"]))

\* endSession
endSession(w, sessionId) ==
  Bind(getSession(w, sessionId), LAMBDA g :
    IF g.val = NULL THEN Absent(g.w)
    ELSE saveSession(g.w,
         [g.val EXCEPT
            !.messages = Append(@, createMessage("assistant",
                            [text |-> "ended", count |-> Len(g.val.questionsAsked)],
                            [type |-> "system"])),
            !.status = "ended",
            !.currentQuestion = NULL]))

\* ---------------------------------------------------------- answer evaluator
Min(a, b) == IF a < b THEN a ELSE b
Max(a, b) == IF a > b THEN a ELSE b

\* What the completion service may reply to evaluateAnswer: any numeric score,
\* any isCorrect, and needsHint true, false or left out.
UpstreamResults ==
  [score : Scores, isCorrect : BOOLEAN, needsHint : {"true", "false", "undefined"}]

\* evaluateAnswer as it would be if it trusted the isCorrect of the reply
evaluateAnswerTrusting(result) ==
  [score |-> Max(0, Min(100, result.score)),
   isCorrect |-> result.isCorrect,
   needsHint |-> (result.needsHint = "true") \/ result.score < 50]

\* evaluateAnswer as it would be if it passed the needsHint of the reply through
evaluateAnswerPassing(result) ==
  [score |-> Max(0, Min(100, result.score)),
   isCorrect |-> result.score >= 70,
   needsHint |-> result.needsHint = "true"]

\* evaluateAnswer, from the parsed reply to the returned Evaluation
\* (feedback, missedPoints and strengths are passed through and not modelled)
evaluateAnswer(result) ==
  [score |-> Max(0, Min(100, result.score)),
   isCorrect |-> result.score >= 70,
   needsHint |-> (result.needsHint = "true") \/ result.score < 50]

\* ------------------------------------------------------------ hint generator
\* A hint level is any number of the request's JSON, whole or not.  Levels are
\* held in halves: Halves(n) is the level n, Halves(n) + 1 the level n + 0.5.
Halves(n) == 2 * n

\* Math.min(Math.max(hintLevel, 1), 3) of the hint route
clampHintLevel(hintLevel) == Min(Max(hintLevel, Halves(1)), Halves(3))

\* generateHint: the guideline the prompt is built from,
\* hintGuidelines[hintLevel] || hintGuidelines[1]
hintGuideline(hintLevel) ==
  IF hintLevel \in {Halves(1), Halves(2), Halves(3)} THEN hintLevel ELSE Halves(1)

\* formatHintMessage: the label of the hint
formatHintMessage(hintLevel) ==
  IF hintLevel = Halves(1) THEN "Gentle"
  ELSE IF hintLevel = Halves(2) THEN "Moderate" ELSE "Strong"

\* --------------------------------------------------------------- code snippets
\* A file's content is held as content.split('\n') gives it: its lines, the
\* empty string being one empty line.  A line's text is the pair of its file
\* and number, an empty line the empty text.
EmptyText == <<>>
EmptyContent == <<EmptyText>>
\* what the file map holds for a path that is not a key of it, and the null
\* of getFileContent
NoContent == <<>>
FileContent(file, lineCount) == [i \in 1..lineCount |-> <<file, i>>]

\* Array.prototype.slice(start, end): a negative index counts from the end
RelativeIndex(index, len) == IF index < 0 THEN Max(len + index, 0) ELSE Min(index, len)
slice(lines, start, end) ==
  IF RelativeIndex(start, Len(lines)) >= RelativeIndex(end, Len(lines)) THEN <<>>
  ELSE SubSeq(lines, RelativeIndex(start, Len(lines)) + 1, RelativeIndex(end, Len(lines)))

\* lines.join('\n'), held as the split of the joined string
join(lines) == IF lines = <<>> THEN EmptyContent ELSE lines

\* extractCodeSnippet of the question generator: the line range is the one
\* the completion service named, and the snippet starts without annotations
\* (the uuid and the language of a snippet are not modelled)
extractCodeSnippet(content, startLine, endLine, file) ==
  [file |-> file, startLine |-> startLine, endLine |-> endLine,
   code |-> join(slice(content, startLine - 1, endLine)), annotations |-> <<>>]

\* ---------------------------------------------------------- question generator
\* getFileContent: analysis.fileContents[filePath] || null; a file that is not
\* a key of the map reads as null here, and so does one whose content is empty
getFileContent(analysis, filePath) ==
  IF analysis.fileContents[filePath] = NoContent THEN NoContent
  ELSE IF analysis.fileContents[filePath] = EmptyContent THEN NoContent
  ELSE analysis.fileContents[filePath]

\* the loop over generated.codeSnippets: a descriptor whose file has content
\* becomes a snippet
RECURSIVE extractDescribed(_, _)
extractDescribed(analysis, descriptors) ==
  IF descriptors = <<>> THEN <<>>
  ELSE (IF getFileContent(analysis, Head(descriptors).file) = NoContent THEN <<>>
        ELSE <<extractCodeSnippet(getFileContent(analysis, Head(descriptors).file),
                                  Head(descriptors).startLine,
                                  Head(descriptors).endLine,
                                  Head(descriptors).file)>>)
       \o extractDescribed(analysis, Tail(descriptors))

\* the loop over generated.relatedFiles: the first file that has content gives
\* the snippet of its first lines
RECURSIVE extractRelated(_, _)
extractRelated(analysis, relatedFiles) ==
  IF relatedFiles = <<>> THEN <<>>
  ELSE IF getFileContent(analysis, Head(relatedFiles)) = NoContent
       THEN extractRelated(analysis, Tail(relatedFiles))
       ELSE <<extractCodeSnippet(
                getFileContent(analysis, Head(relatedFiles)), 1,
                Min(Len(getFileContent(analysis, Head(relatedFiles))), FallbackLines),
                Head(relatedFiles))>>

\* generateQuestion, from the reply of the completion service on: the
\* snippets of the question it returns
generateQuestion(analysis, generated) ==
  Bind(extractDescribed(analysis, generated.codeSnippets), LAMBDA codeSnippets :
    IF Len(codeSnippets) < 1 /\ Len(generated.relatedFiles) > 0
    THEN [codeSnippets |-> extractRelated(analysis, generated.relatedFiles)]
    ELSE [codeSnippets |-> codeSnippets])

\* ------------------------------------------------------------ code annotator
\* The annotation the annotator makes of one entry of the reply
Annotation(line, type) == [line |-> line, type |-> type]

\* annotateCodeSnippet as it would be if the filter tested the first line only
annotateCodeSnippetFrom(codeSnippet, reply) ==
  IF reply.threw THEN codeSnippet
  ELSE [codeSnippet EXCEPT !.annotations =
          SelectSeq(reply.annotations, LAMBDA a : a.line >= codeSnippet.startLine)]

\* annotateCodeSnippet: the annotations of the reply that lie in the snippet
\* replace the snippet's; when the completion fails the snippet comes back as
\* it was given
annotateCodeSnippet(codeSnippet, reply) ==
  IF reply.threw THEN codeSnippet
  ELSE [codeSnippet EXCEPT !.annotations =
          SelectSeq(reply.annotations,
                    LAMBDA a : a.line >= codeSnippet.startLine /\ a.line <= codeSnippet.endLine)]

\* annotateAllSnippets as it would be if a failed annotation call were let
\* through to the caller
annotateAllSnippetsRaising(snippets, replies) ==
  [threw |-> \E i \in 1..Len(snippets) : replies[i].threw,
   val |-> [i \in 1..Len(snippets) |-> annotateCodeSnippet(snippets[i], replies[i])]]

\* annotateAllSnippets: [threw, val]; replies[i] is what the completion
\* service does for the call made for snippets[i]
annotateAllSnippets(snippets, replies) ==
  [threw |-> FALSE,
   val |-> [i \in 1..Len(snippets) |-> annotateCodeSnippet(snippets[i], replies[i])]]

\* the highlight annotations highlightLines makes of linesToHighlight
HighlightAnnotations(linesToHighlight) ==
  [i \in 1..Len(linesToHighlight) |-> Annotation(linesToHighlight[i], "key-point")]

\* highlightLines
highlightLines(codeSnippet, linesToHighlight) ==
  [codeSnippet EXCEPT !.annotations =
     @ \o HighlightAnnotations(
            SelectSeq(linesToHighlight,
                      LAMBDA line : line >= codeSnippet.startLine /\ line <= codeSnippet.endLine))]

\* -------------------------------------------------------- repository ingestion
\* Paths are held as their characters, so that startsWith and the stripping
\* of slashes are computed on them.
Slash == "/"
startsWith(string, prefix) ==
  Len(prefix) <= Len(string) /\ SubSeq(string, 1, Len(prefix)) = prefix

\* path.split('/')
RECURSIVE split(_)
split(path) ==
  IF \A i \in 1..Len(path) : path[i] # Slash THEN <<path>>
  ELSE Bind(CHOOSE i \in 1..Len(path) :
              path[i] = Slash /\ \A j \in 1..(i - 1) : path[j] # Slash,
            LAMBDA i : <<SubSeq(path, 1, i - 1)>> \o split(SubSeq(path, i + 1, Len(path))))

\* replace(/^\/|\/$/g, ''): one slash is taken from the front, if there is
\* one, and one from the end of what remains
stripSlashes(path) ==
  Bind(IF Len(path) > 0 /\ Head(path) = Slash THEN Tail(path) ELSE path, LAMBDA rest :
    IF Len(rest) > 0 /\ rest[Len(rest)] = Slash THEN SubSeq(rest, 1, Len(rest) - 1)
    ELSE rest)

\* the directories of EXCLUDE_DIRS the tree has
EXCLUDE_DIRS == {<<"b", "i", "n">>}

\* shouldIncludeFile (the tree has no binary and no hidden file)
shouldIncludeFile(path) ==
  \A i \in 1..Len(split(path)) : split(path)[i] \notin EXCLUDE_DIRS

\* shouldProcess of fetchDirectory as it would be if it only took the
\* directories below a requested one
shouldProcessBelow(selectedDirectories, path) ==
  \E i \in 1..Len(selectedDirectories) :
    IF stripSlashes(path) = <<>> THEN TRUE
    ELSE startsWith(stripSlashes(path), stripSlashes(selectedDirectories[i]))

\* shouldProcess of fetchDirectory
shouldProcess(selectedDirectories, path) ==
  \E i \in 1..Len(selectedDirectories) :
    IF stripSlashes(path) = <<>> THEN TRUE
    ELSE IF startsWith(stripSlashes(path), stripSlashes(selectedDirectories[i])) THEN TRUE
    ELSE startsWith(stripSlashes(selectedDirectories[i]), stripSlashes(path))

\* The repository the hosting API serves: five directories, the root
\* included, and five files.
RootPath == <<>>
DirA == <<"a">>
DirAB == <<"a", Slash, "b">>
DirAb == <<"a", "b">>
DirBin == <<"b", "i", "n">>
FileF == <<"f">>
FileAG == <<"a", Slash, "g">>
FileABH == <<"a", Slash, "b", Slash, "h">>
FileAbK == <<"a", "b", Slash, "k">>
FileBinM == <<"b", "i", "n", Slash, "m">>
RepoDirs == {RootPath, DirA, DirAB, DirAb, DirBin}
RepoFiles == {FileF, FileAG, FileABH, FileAbK, FileBinM}
Item(path, type) == [path |-> path, type |-> type, size |-> 1]

\* the array octokit.repos.getContent returns for a directory
Listing(path) ==
  IF path = RootPath
  THEN <<Item(DirA, "dir"), Item(FileF, "file"), Item(DirAb, "dir"), Item(DirBin, "dir")>>
  ELSE IF path = DirA THEN <<Item(DirAB, "dir"), Item(FileAG, "file")>>
  ELSE IF path = DirAB THEN <<Item(FileABH, "file")>>
  ELSE IF path = DirAb THEN <<Item(FileAbK, "file")>>
  ELSE <<Item(FileBinM, "file")>>

\* fetchDirectory and the loop over the items of its listing.  api.list gives
\* what listing a path does ("ok", "404", "error"), api.read what reading a
\* file does ("ok", "empty", "error").  The result is the files pushed so
\* far, the paths whose listing was asked for, and whether the call threw.
\* the read of one file as it would be without the try around it: a failed
\* read leaves the loop
readFileRaising(api, item, acc) ==
  IF api.read[item.path] = "ok" THEN [acc EXCEPT !.files = Append(@, item.path)]
  ELSE IF api.read[item.path] = "error" THEN [acc EXCEPT !.threw = TRUE]
  ELSE acc

\* the read of one file: it is pushed when the read gives content, and
\* skipped when the read fails or gives none
readFile(api, item, acc) ==
  IF api.read[item.path] = "ok" THEN [acc EXCEPT !.files = Append(@, item.path)]
  ELSE acc

RECURSIVE fetchDirectory(_, _, _, _)
RECURSIVE fetchItems(_, _, _, _)
fetchItems(api, selectedDirectories, items, acc) ==
  IF items = <<>> THEN acc
  ELSE IF ~shouldIncludeFile(Head(items).path)
       THEN fetchItems(api, selectedDirectories, Tail(items), acc)
  ELSE IF Head(items).type = "file"
       THEN IF Head(items).size > MAX_FILE_SIZE
            THEN fetchItems(api, selectedDirectories, Tail(items), acc)
            ELSE Bind(readFile(api, Head(items), acc), LAMBDA r :
                   IF r.threw THEN r
                   ELSE fetchItems(api, selectedDirectories, Tail(items), r))
  ELSE Bind(fetchDirectory(api, selectedDirectories, Head(items).path, acc), LAMBDA d :
         IF d.threw THEN d ELSE fetchItems(api, selectedDirectories, Tail(items), d))

fetchDirectory(api, selectedDirectories, path, acc) ==
  IF Len(selectedDirectories) > 0 /\ ~shouldProcess(selectedDirectories, path)
     /\ path # RootPath
  THEN acc
  ELSE Bind([acc EXCEPT !.listed = @ \cup {path}], LAMBDA acc1 :
         IF api.list[path] = "404" THEN [acc1 EXCEPT !.threw = TRUE]
         ELSE IF api.list[path] = "error" THEN acc1
         ELSE Bind(fetchItems(api, selectedDirectories, Listing(path), acc1), LAMBDA r :
                \* what a nested fetchDirectory threw has no status: it is
                \* caught here and logged
                [r EXCEPT !.threw = FALSE]))

\* fetchRepository: [threw, message, files, listed]
fetchRepository(api, selectedDirectories) ==
  IF api.repo # "ok"
  THEN [threw |-> TRUE, message |-> "repos.get", files |-> <<>>, listed |-> {}]
  ELSE Bind(fetchDirectory(api, selectedDirectories, RootPath,
                           [files |-> <<>>, listed |-> {}, threw |-> FALSE]), LAMBDA d :
         IF d.threw
         THEN [threw |-> TRUE, message |-> "Repository or path not found",
               files |-> <<>>, listed |-> d.listed]
         ELSE [threw |-> FALSE, message |-> "", files |-> d.files, listed |-> d.listed])

\* ------------------------------------------------------------------ handlers
\* A handler's outcome: the store after it and the response it sends.
Result(w, ok, status) == [w |-> w, ok |-> ok, status |-> status]

NoResponse == [op |-> "none", sessionId |-> NoId, questionId |-> NoId,
               ok |-> FALSE, status |-> 0]

Respond(op, sessionId, questionId, r) ==
  response' = [op |-> op, sessionId |-> sessionId, questionId |-> questionId,
               ok |-> r.ok, status |-> r.status]

\* The session a request for sessionId would read now.
Visible(sessionId) ==
  IF sessionId \in SessionIds THEN getSession(World, sessionId).val ELSE NULL

\* The messages of the log whose text is text.
CountMessages(messages, text) ==
  Cardinality({i \in 1..Len(messages) : messages[i].content.text = text})

\* The session's log holds fewer than max messages of that text: the request
\* that appends one more is still driven.
Room(sessionId, text, max) ==
  IF Visible(sessionId) = NULL THEN TRUE
  ELSE CountMessages(Visible(sessionId).messages, text) < max

RepoUrls == {"", "https://github.com/o/r", "https://gitlab.com/o/r"}
IsGithubUrl(repoUrl) == repoUrl = "https://github.com/o/r"

\* POST /api/interview/start
StartRun(w, sessionId, repoUrl) ==
  IF repoUrl = "" THEN Result(w, FALSE, 400)
  ELSE IF ~IsGithubUrl(repoUrl) THEN Result(w, FALSE, 400)
  ELSE Bind(createSession(w, sessionId, repoUrl, repoUrl), LAMBDA c :
         IF c.threw THEN Result(c.w, FALSE, 500) ELSE Result(c.w, TRUE, 200))

\* GET /api/interview/session
GetRun(w, sessionId) ==
  IF sessionId = NoId THEN Result(w, FALSE, 400)
  ELSE Bind(getSession(w, sessionId), LAMBDA g :
         IF g.val = NULL THEN Result(g.w, FALSE, 404) ELSE Result(g.w, TRUE, 200))

\* PATCH /api/interview/session
PatchRun(w, sessionId, directories) ==
  IF sessionId = NoId THEN Result(w, FALSE, 400)
  ELSE Bind(setSelectedDirectories(w, sessionId, directories), LAMBDA s :
         IF s.threw THEN Result(s.w, FALSE, 500)
         ELSE IF s.val = NULL THEN Result(s.w, FALSE, 404)
         ELSE Result(s.w, TRUE, 200))

\* DELETE /api/interview/session
DeleteRun(w, sessionId) ==
  IF sessionId = NoId THEN Result(w, FALSE, 400)
  ELSE Bind(endSession(w, sessionId), LAMBDA s :
         IF s.threw THEN Result(s.w, FALSE, 500)
         ELSE IF s.val = NULL THEN Result(s.w, FALSE, 404)
         ELSE Result(s.w, TRUE, 200))

\* What fetchRepository does for a request: it throws or returns files.
FetchOutcomes ==
  {[threw |-> TRUE, files |-> <<>>]} \cup {[threw |-> FALSE, files |-> f] : f \in FileLists}

\* What the two collaborators of one Analyze request do: analyzeRepository is
\* reached, and may throw, only when files were fetched.
AnalyzeOutcomes ==
  {[fetched |-> f, analyzeThrew |-> t] : f \in FetchOutcomes, t \in BOOLEAN}
  \ {o \in [fetched : FetchOutcomes, analyzeThrew : {TRUE}] : Len(o.fetched.files) = 0}

\* analyzeRepository: the analysis keeps the content of every ingested file
analyzeRepository(files) == [fileContents |-> files]

\* the catch block of POST /api/interview/analyze: revert the status, swallow
\* whatever the revert throws.  The revert first reads the request again with
\* request.clone().json(); the body was read at the top of the handler, and a
\* runtime that follows the Fetch standard throws on clone() of a request whose
\* body was read (cloneThrew), so that the revert is not reached.
AnalyzeCatch(w, sessionId, cloneThrew) ==
  IF cloneThrew THEN Result(w, FALSE, 500)
  ELSE Bind(updateSessionStatus(w, sessionId, "selecting_dirs"), LAMBDA u :
         Result(u.w, FALSE, 500))

\* POST /api/interview/analyze
AnalyzeRun(w, sessionId, directories, fetched, analyzeThrew, cloneThrew) ==
  IF sessionId = NoId THEN Result(w, FALSE, 400)
  ELSE Bind(getSession(w, sessionId), LAMBDA g :
  IF g.val = NULL THEN Result(g.w, FALSE, 404)
  ELSE Bind(addMessage(g.w, sessionId,
              createMessage("assistant",
                [text |-> "analyzing",
                 scope |-> IF Len(directories) > 0 THEN "focusing on" ELSE "entire repo"],
                [type |-> "system"])), LAMBDA m1 :
  IF m1.threw \/ fetched.threw THEN AnalyzeCatch(m1.w, sessionId, cloneThrew)
  ELSE IF Len(fetched.files) = 0
  THEN Bind(updateSessionStatus(m1.w, sessionId, "selecting_dirs"), LAMBDA u :
         IF u.threw THEN AnalyzeCatch(u.w, sessionId, cloneThrew) ELSE Result(u.w, FALSE, 400))
  ELSE IF analyzeThrew THEN AnalyzeCatch(m1.w, sessionId, cloneThrew)
  ELSE Bind(setAnalysisCache(m1.w, sessionId, analyzeRepository(fetched.files)), LAMBDA a :
  IF a.threw THEN AnalyzeCatch(a.w, sessionId, cloneThrew)
  ELSE Bind(addMessage(a.w, sessionId,
              createMessage("assistant", [text |-> "analysis complete"],
                [type |-> "system"])), LAMBDA m2 :
  IF m2.threw THEN AnalyzeCatch(m2.w, sessionId, cloneThrew) ELSE Result(m2.w, TRUE, 200)))))

\* The test of the request's questionId as it would be if it only asked for a
\* current question
QuestionMatchesAny(session, questionId) ==
  session.currentQuestion # NULL

\* The test both the answer route and the hint route make of the request's
\* questionId: session.currentQuestion && session.currentQuestion.id === questionId
QuestionMatches(session, questionId) ==
  IF session.currentQuestion = NULL THEN FALSE
  ELSE session.currentQuestion.id = questionId

\* POST /api/interview/question as it would be without the test of the
\* status
QuestionRunAnyStatus(w, sessionId, generateThrew, question, replies) ==
  IF sessionId = NoId THEN Result(w, FALSE, 400)
  ELSE Bind(getSession(w, sessionId), LAMBDA g :
  IF g.val = NULL THEN Result(g.w, FALSE, 404)
  ELSE IF g.val.analysisCache = NULL THEN Result(g.w, FALSE, 400)
  ELSE IF generateThrew THEN Result(g.w, FALSE, 500)
  ELSE Bind(IF Len(question.codeSnippets) > 0
            THEN annotateAllSnippets(question.codeSnippets, replies)
            ELSE [threw |-> FALSE, val |-> question.codeSnippets], LAMBDA a :
  IF a.threw THEN Result(g.w, FALSE, 500)
  ELSE Bind(setCurrentQuestion(g.w, sessionId,
                               [question EXCEPT !.codeSnippets = a.val]), LAMBDA q :
  IF q.threw THEN Result(q.w, FALSE, 500)
  ELSE Bind(addMessage(q.w, sessionId,
              createMessage("assistant", [text |-> "question"],
                [type |-> "question", questionId |-> question.id,
                 codeSnippets |-> a.val])), LAMBDA m :
  IF m.threw THEN Result(m.w, FALSE, 500) ELSE Result(m.w, TRUE, 200)))))

\* POST /api/interview/question; question is what generateQuestion returns,
\* replies what the completion service does for each annotation call
QuestionRun(w, sessionId, generateThrew, question, replies) ==
  IF sessionId = NoId THEN Result(w, FALSE, 400)
  ELSE Bind(getSession(w, sessionId), LAMBDA g :
  IF g.val = NULL THEN Result(g.w, FALSE, 404)
  ELSE IF g.val.analysisCache = NULL THEN Result(g.w, FALSE, 400)
  ELSE IF g.val.status = "ended" THEN Result(g.w, FALSE, 400)
  ELSE IF generateThrew THEN Result(g.w, FALSE, 500)
  ELSE Bind(IF Len(question.codeSnippets) > 0
            THEN annotateAllSnippets(question.codeSnippets, replies)
            ELSE [threw |-> FALSE, val |-> question.codeSnippets], LAMBDA a :
  IF a.threw THEN Result(g.w, FALSE, 500)
  ELSE Bind(setCurrentQuestion(g.w, sessionId,
                               [question EXCEPT !.codeSnippets = a.val]), LAMBDA q :
  IF q.threw THEN Result(q.w, FALSE, 500)
  ELSE Bind(addMessage(q.w, sessionId,
              createMessage("assistant", [text |-> "question"],
                [type |-> "question", questionId |-> question.id,
                 codeSnippets |-> a.val])), LAMBDA m :
  IF m.threw THEN Result(m.w, FALSE, 500) ELSE Result(m.w, TRUE, 200)))))

\* POST /api/interview/answer; result is the completion service's reply
AnswerRun(w, sessionId, answer, questionId, evaluateThrew, result, replies) ==
  IF sessionId = NoId \/ answer = "" \/ questionId = NoId THEN Result(w, FALSE, 400)
  ELSE Bind(getSession(w, sessionId), LAMBDA g :
  IF g.val = NULL THEN Result(g.w, FALSE, 404)
  ELSE IF ~QuestionMatches(g.val, questionId) THEN Result(g.w, FALSE, 400)
  ELSE IF g.val.analysisCache = NULL THEN Result(g.w, FALSE, 400)
  ELSE Bind(addMessage(g.w, sessionId,
              createMessage("user", [text |-> answer],
                [type |-> "answer", questionId |-> questionId])), LAMBDA m1 :
  IF m1.threw \/ evaluateThrew THEN Result(m1.w, FALSE, 500)
  ELSE Bind(IF Len(g.val.currentQuestion.codeSnippets) > 0
            THEN annotateAllSnippets(g.val.currentQuestion.codeSnippets, replies)
            ELSE [threw |-> FALSE, val |-> g.val.currentQuestion.codeSnippets], LAMBDA a :
  IF a.threw THEN Result(m1.w, FALSE, 500)
  ELSE Bind(addMessage(m1.w, sessionId,
              createMessage("assistant", [text |-> "evaluation"],
                [type |-> "evaluation", questionId |-> questionId,
                 score |-> evaluateAnswer(result).score,
                 codeSnippets |-> a.val])), LAMBDA m2 :
  IF m2.threw THEN Result(m2.w, FALSE, 500)
  ELSE Bind(clearCurrentQuestion(m2.w, sessionId), LAMBDA c :
  IF c.threw THEN Result(c.w, FALSE, 500) ELSE Result(c.w, TRUE, 200))))))

\* POST /api/interview/hint
HintRun(w, sessionId, questionId, hintLevel, generateThrew) ==
  IF sessionId = NoId \/ questionId = NoId THEN Result(w, FALSE, 400)
  ELSE Bind(getSession(w, sessionId), LAMBDA g :
  IF g.val = NULL THEN Result(g.w, FALSE, 404)
  ELSE IF ~QuestionMatches(g.val, questionId) THEN Result(g.w, FALSE, 400)
  ELSE IF g.val.analysisCache = NULL THEN Result(g.w, FALSE, 400)
  ELSE IF generateThrew THEN Result(g.w, FALSE, 500)
  ELSE Bind(addMessage(g.w, sessionId,
              createMessage("assistant",
                [text |-> "hint", label |-> formatHintMessage(clampHintLevel(hintLevel))],
                [type |-> "hint", questionId |-> questionId])), LAMBDA m :
  IF m.threw THEN Result(m.w, FALSE, 500) ELSE Result(m.w, TRUE, 200)))

\* ------------------------------------------------------------------- actions
\* the levels 0, 2, 2.5 and 4
HintLevels == {Halves(0), Halves(2), Halves(2) + 1, Halves(4)}
\* The answer requests a client sends: complete ones, and one with an empty
\* answer.  (A request without a session id is sent to GET /session only: the
\* test of it is the same first statement in every handler.)
AnswerRequests ==
  [sessionId : SessionIds, answer : {"answer text"}, questionId : QuestionIds]
  \cup {[sessionId |-> 1, answer |-> "", questionId |-> 1]}
\* The evaluator throws, or the completion service returns a score.
EvaluateOutcomes ==
  {[threw |-> TRUE, score |-> 0]} \cup {[threw |-> FALSE, score |-> x] : x \in SessionScores}
\* The hint requests a client sends.
HintRequests == [sessionId : SessionIds, questionId : QuestionIds]
NoUpstream == [result |-> [score |-> 0, isCorrect |-> FALSE, needsHint |-> "undefined"],
               pending |-> FALSE]
NoEvaluation == [result |-> [score |-> 0, isCorrect |-> FALSE, needsHint |-> FALSE],
                 done |-> FALSE]
NoSnippet == [startLine |-> 1, endLine |-> 1, annotations |-> <<>>]
NoHintCall == [hintLevel |-> 0, clampedHintLevel |-> 0, guideline |-> 0, label |-> "",
               done |-> FALSE]
NoGeneration == [analysis |-> [fileContents |-> [file \in {} |-> NoContent]],
                 generated |-> [codeSnippets |-> <<>>, relatedFiles |-> <<>>],
                 question |-> NULL]
NoIngestion == [api |-> [repo |-> "ok", list |-> <<>>, read |-> <<>>],
                selectedDirectories |-> <<>>, result |-> NULL]
NoAnnotateCall == [op |-> "none", snippets |-> <<>>, replies |-> <<>>]
NoRate == [store |-> <<>>, maxRequests |-> 1, windowMs |-> 1, calls |-> <<>>]
NoRetry == [opts |-> [maxAttempts |-> 0, initialDelayMs |-> 0, maxDelayMs |-> 0,
                     backoffMultiplier |-> 0],
            attempt |-> 0, pc |-> "idle", log |-> <<>>, delays |-> <<>>, slept |-> 0,
            settled |-> 0]
NotSuspended == [op |-> "none", sessionId |-> NoId, questionId |-> NoId, session |-> NULL]
NoKv == [ref |-> [k \in SessionIds |-> NULL], op |-> "none", key |-> NoId,
         result |-> NULL, expected |-> NULL]

\* The two requests whose manager calls may overlap on one session.
Callers == {1, 2}
NotInFlight == [stage |-> "idle", call |-> "none", sessionId |-> NoId,
                session |-> NULL, writesSeen |-> 0, saved |-> NULL, order |-> 0]
NoneInFlight == [caller \in Callers |-> NotInFlight]

\* Every request leaves the environment, the clock and the evaluator's
\* registers alone.
Frame == UNCHANGED <<envVars, redisHealth, now, libVars>>

StartSession ==
  \E repoUrl \in RepoUrls :
    /\ sessionsCreated < MaxSessions
    /\ \E sessionId \in {sessionsCreated + 1} :
       \E r \in {StartRun(World, sessionId, repoUrl)} :
       /\ SetWorld(r.w)
       /\ Respond("StartSession", IF repoUrl = "" \/ ~IsGithubUrl(repoUrl)
                                  THEN NoId ELSE sessionId, NoId, r)
       /\ sessionsCreated' = IF repoUrl = "" \/ ~IsGithubUrl(repoUrl)
                             THEN sessionsCreated ELSE sessionId
    /\ UNCHANGED questionsGenerated
    /\ Frame

GetSession ==
  \E sessionId \in SessionIds \cup {NoId} :
    /\ \E r \in {GetRun(World, sessionId)} :
         SetWorld(r.w) /\ Respond("GetSession", sessionId, NoId, r)
    /\ UNCHANGED <<sessionsCreated, questionsGenerated>>
    /\ Frame

SetDirectories ==
  \E sessionId \in SessionIds, directories \in DirChoices :
    /\ \E r \in {PatchRun(World, sessionId, directories)} :
         SetWorld(r.w) /\ Respond("SetDirectories", sessionId, NoId, r)
    /\ UNCHANGED <<sessionsCreated, questionsGenerated>>
    /\ Frame

Analyze ==
  \E sessionId \in SessionIds, directories \in DirChoices,
     o \in AnalyzeOutcomes, cloneThrew \in BOOLEAN :
    /\ Room(sessionId, "analyzing", MaxAnalyses)
    /\ \E r \in {AnalyzeRun(World, sessionId, directories, o.fetched, o.analyzeThrew,
                            cloneThrew)} :
         SetWorld(r.w) /\ Respond("Analyze", sessionId, NoId, r)
    /\ UNCHANGED <<sessionsCreated, questionsGenerated>>
    /\ Frame

NextQuestion ==
  \E sessionId \in SessionIds, generateThrew \in BOOLEAN :
    /\ questionsGenerated < MaxQuestions
    /\ \E question \in {[id |-> questionsGenerated + 1, codeSnippets |-> <<>>]} :
       \E r \in {QuestionRun(World, sessionId, generateThrew, question, <<>>)} :
       /\ SetWorld(r.w)
       /\ Respond("NextQuestion", sessionId, IF r.ok THEN question.id ELSE NoId, r)
       /\ questionsGenerated' = IF r.status \in {200, 500} /\ ~generateThrew
                                 THEN question.id ELSE questionsGenerated
    /\ UNCHANGED sessionsCreated
    /\ Frame

SubmitAnswer ==
  \E req \in AnswerRequests, o \in EvaluateOutcomes :
    /\ Room(req.sessionId, "answer text", MaxAnswers)
    /\ \E r \in {AnswerRun(World, req.sessionId, req.answer, req.questionId, o.threw,
                             [score |-> o.score, isCorrect |-> o.score >= 70,
                              needsHint |-> "false"], <<>>)} :
         SetWorld(r.w) /\ Respond("SubmitAnswer", req.sessionId, req.questionId, r)
    /\ UNCHANGED <<sessionsCreated, questionsGenerated>>
    /\ Frame

\* A hint request, driven while the log holds fewer than max hints
RequestHintWithin(max) ==
  \E req \in HintRequests, hintLevel \in HintLevels, generateThrew \in BOOLEAN :
    /\ Room(req.sessionId, "hint", max)
    /\ \E r \in {HintRun(World, req.sessionId, req.questionId, hintLevel, generateThrew)} :
         SetWorld(r.w) /\ Respond("RequestHint", req.sessionId, req.questionId, r)
    /\ UNCHANGED <<sessionsCreated, questionsGenerated>>
    /\ Frame

RequestHint == RequestHintWithin(MaxHints)

\* The client asks for a hint again and again (requestHint of InterviewLayout
\* sends a request on every "hint" the user types, with hintLevel hintCount + 1).
RequestHintAgain == RequestHintWithin(MaxHintRequests)

EndSession ==
  \E sessionId \in SessionIds :
    /\ Room(sessionId, "ended", MaxEnds)
    /\ \E r \in {DeleteRun(World, sessionId)} :
         SetWorld(r.w) /\ Respond("EndSession", sessionId, NoId, r)
    /\ UNCHANGED <<sessionsCreated, questionsGenerated>>
    /\ Frame

\* The Redis server the process is configured for becomes reachable,
\* unreachable or stops answering commands.
RedisHealthChange ==
  /\ ~(IsDev /\ (useInMemoryStoreEnv \/ ~forceRedis))
  /\ \E h \in {"up", "down", "flaky"} : h # redisHealth /\ redisHealth' = h
  /\ response' = NoResponse
  /\ UNCHANGED <<envVars, instance, useInMemory, globalInstance, mem, rds, now,
                 sessionsCreated, questionsGenerated, libVars>>

\* redisErrorHandler: the client's 'error' event while the server is not well
RedisErrorEvent ==
  /\ instance = "redis"
  /\ redisHealth # "up"
  /\ SetWorld(IF World.useInMemory THEN World ELSE switchToInMemory(World))
  /\ response' = NoResponse
  /\ UNCHANGED <<envVars, redisHealth, now, sessionsCreated, questionsGenerated,
                 libVars>>

\* A hot reload in development: the module is evaluated again, its static
\* fields start over and line 319 calls getInstance; global.* survives.
HotReload ==
  /\ IsDev
  /\ SetWorld(getInstance([World EXCEPT !.instance = "null", !.useInMemory = FALSE]))
  /\ response' = NoResponse
  /\ UNCHANGED <<envVars, redisHealth, now, sessionsCreated, questionsGenerated,
                 libVars>>

\* No request arrives for longer than the TTL of a session.
LongPause ==
  /\ now < SessionTtlMs
  /\ now' = now + SessionTtlMs + 1
  /\ response' = NoResponse
  /\ UNCHANGED <<envVars, instance, useInMemory, globalInstance, mem, rds,
                 redisHealth, sessionsCreated, questionsGenerated, libVars>>

\* deleteSession, called on the manager (no route calls it)
DeleteSession ==
  \E sessionId \in SessionIds :
    /\ \E d \in {deleteSession(World, sessionId)} :
       /\ SetWorld(d.w)
       /\ response' = [op |-> "deleteSession", sessionId |-> sessionId,
                       questionId |-> NoId, ok |-> d.val, status |-> 0]
    /\ UNCHANGED <<sessionsCreated, questionsGenerated>>
    /\ Frame

\* Time passes between two requests, to one of the instants of Times.
AdvanceClock ==
  /\ \E t \in Times : t > now /\ now' = t
  /\ response' = NoResponse
  /\ UNCHANGED <<envVars, instance, useInMemory, globalInstance, mem, rds,
                 redisHealth, sessionsCreated, questionsGenerated, libVars>>

\* The settings a process is started with: nothing set, Redis forced, the
\* in-memory store asked for, in development; nothing set in production.
EnvChoices ==
  {[nodeEnv |-> "development", forceRedis |-> FALSE, useInMemoryStore |-> FALSE],
   [nodeEnv |-> "development", forceRedis |-> TRUE, useInMemoryStore |-> FALSE],
   [nodeEnv |-> "development", forceRedis |-> TRUE, useInMemoryStore |-> TRUE],
   [nodeEnv |-> "production", forceRedis |-> FALSE, useInMemoryStore |-> FALSE]}

\* The state once the module src/lib/redis.ts has been loaded (line 319 has
\* called getInstance) and before any request.
InitStore ==
  /\ \E e \in EnvChoices :
       /\ nodeEnv = e.nodeEnv
       /\ forceRedis = e.forceRedis
       /\ useInMemoryStoreEnv = e.useInMemoryStore
  /\ LET w == getInstance([instance |-> "null", useInMemory |-> FALSE,
                           globalInstance |-> "undefined",
                           mem |-> [k \in SessionIds |-> NULL],
                           rds |-> [k \in SessionIds |-> NULL]]) IN
       /\ instance = w.instance
       /\ useInMemory = w.useInMemory
       /\ globalInstance = w.globalInstance
       /\ mem = w.mem
       /\ rds = w.rds
  /\ redisHealth = "up"
  /\ now = 0
  /\ sessionsCreated = 0
  /\ questionsGenerated = 0
  /\ response = NoResponse

Init ==
  /\ InitStore
  /\ upstream = NoUpstream
  /\ evaluation = NoEvaluation
  /\ snippet = NoSnippet
  /\ hintCall = NoHintCall
  /\ inFlight = NoneInFlight
  /\ generation = NoGeneration
  /\ ingestion = NoIngestion
  /\ annotateCall = NoAnnotateCall
  /\ kv = NoKv
  /\ rate = NoRate
  /\ retry = NoRetry
  /\ suspended = NotSuspended

\* The session engine: the eight boundary operations, in any order, on a
\* store whose backend answers; a session may be left alone past its TTL.
Next ==
  \/ StartSession
  \/ GetSession
  \/ SetDirectories
  \/ Analyze
  \/ NextQuestion
  \/ SubmitAnswer
  \/ RequestHint
  \/ EndSession
  \/ LongPause

Spec == Init /\ [][Next]_vars

\* The session store under failure: sessions are created, read, rewritten and
\* ended or deleted (every way the manager reaches the store: read alone, write alone,
\* read then write) while the Redis server fails and recovers, the client
\* reports errors, the module is reloaded and sessions age.
NextStore ==
  \/ StartSession
  \/ GetSession
  \/ SetDirectories
  \/ EndSession
  \/ DeleteSession
  \/ RedisHealthChange
  \/ RedisErrorEvent
  \/ HotReload
  \/ AdvanceClock

SpecStore == Init /\ [][NextStore]_vars

\* The answer evaluator alone: the completion service has replied with any
\* result of UpstreamResults and evaluateAnswer turns it into an Evaluation.
InitEval ==
  /\ InitStore
  /\ \E r \in UpstreamResults : upstream = [result |-> r, pending |-> TRUE]
  /\ evaluation = NoEvaluation
  /\ snippet = NoSnippet
  /\ hintCall = NoHintCall
  /\ inFlight = NoneInFlight
  /\ generation = NoGeneration
  /\ ingestion = NoIngestion
  /\ annotateCall = NoAnnotateCall
  /\ kv = NoKv
  /\ rate = NoRate
  /\ retry = NoRetry
  /\ suspended = NotSuspended

Evaluate ==
  /\ upstream.pending
  /\ evaluation' = [result |-> evaluateAnswer(upstream.result), done |-> TRUE]
  /\ upstream' = [upstream EXCEPT !.pending = FALSE]
  /\ UNCHANGED <<envVars, instance, useInMemory, globalInstance, mem, rds,
                 redisHealth, now, sessionsCreated, questionsGenerated, response,
                 snippet, hintCall, inFlight, generation, ingestion, annotateCall, kv, rate, retry, suspended>>

NextEval == Evaluate

SpecEval == InitEval /\ [][NextEval]_vars

\* The code annotator alone.  A snippet is cut where the completion service
\* said (any two line numbers); it is annotated when its question is issued and
\* again when the answer is evaluated, each time with any reply or a failure,
\* and lines of it may be highlighted.
SeqsUpTo(S, n) == UNION {[1..k -> S] : k \in 0..n}
SnippetLines == 1..MaxLine
ReplyLines == 0..(MaxLine + 1)
AnnotationReplies ==
  {[threw |-> TRUE, annotations |-> <<>>]}
  \cup {[threw |-> FALSE, annotations |-> a] :
          a \in SeqsUpTo([line : ReplyLines, type : {"explanation"}], MaxReplyAnnotations)}

InitAnnot ==
  /\ InitStore
  /\ upstream = NoUpstream
  /\ evaluation = NoEvaluation
  /\ hintCall = NoHintCall
  /\ \E startLine \in SnippetLines, endLine \in SnippetLines :
       snippet = extractCodeSnippet(FileContent("a.ts", MaxLine), startLine, endLine, "a.ts")
  /\ inFlight = NoneInFlight
  /\ generation = NoGeneration
  /\ ingestion = NoIngestion
  /\ annotateCall = NoAnnotateCall
  /\ kv = NoKv
  /\ rate = NoRate
  /\ retry = NoRetry
  /\ suspended = NotSuspended

AnnotFrame ==
  UNCHANGED <<envVars, instance, useInMemory, globalInstance, mem, rds, redisHealth,
              now, sessionsCreated, questionsGenerated, response, upstream,
              evaluation, hintCall, inFlight, generation, ingestion, annotateCall, kv, rate, retry, suspended>>

\* annotateAllSnippets, for the one snippet of the question
Annotate ==
  /\ \E reply \in AnnotationReplies : snippet' = annotateCodeSnippet(snippet, reply)
  /\ AnnotFrame

Highlight ==
  /\ Len(snippet.annotations) < MaxAnnotations
  /\ \E linesToHighlight \in SeqsUpTo(ReplyLines, 1) :
       snippet' = highlightLines(snippet, linesToHighlight)
  /\ AnnotFrame

NextAnnot ==
  \/ Annotate
  \/ Highlight

SpecAnnot == InitAnnot /\ [][NextAnnot]_vars

\* The hint level alone: a request carries any level, and the hint route
\* clamps it, hands it to generateHint and labels the hint with it.
\* The question generator alone: the analysis cache holds any of a few file
\* maps, the completion service has named any descriptors and related files,
\* and generateQuestion makes the question's snippets of them.
FileNames == {"a.ts", "b.ts"}
CachedAnalyses ==
  {[fileContents |-> [file \in FileNames |-> IF file = "a.ts" THEN a ELSE b]] :
     a \in {NoContent, FileContent("a.ts", MaxLine - 1)},
     b \in {NoContent, EmptyContent, FileContent("b.ts", FallbackLines + 1)}}
DescriptorLines == 0..MaxLine
GeneratedReplies ==
  [codeSnippets : SeqsUpTo([file : FileNames, startLine : DescriptorLines,
                            endLine : DescriptorLines], MaxDescriptors),
   relatedFiles : {<<>>, <<"a.ts">>, <<"b.ts", "a.ts">>}]

InitGeneration ==
  /\ InitStore
  /\ upstream = NoUpstream
  /\ evaluation = NoEvaluation
  /\ snippet = NoSnippet
  /\ hintCall = NoHintCall
  /\ inFlight = NoneInFlight
  /\ \E analysis \in CachedAnalyses, generated \in GeneratedReplies :
       generation = [analysis |-> analysis, generated |-> generated, question |-> NULL]
  /\ ingestion = NoIngestion
  /\ annotateCall = NoAnnotateCall
  /\ kv = NoKv
  /\ rate = NoRate
  /\ retry = NoRetry
  /\ suspended = NotSuspended

GenerateQuestion ==
  /\ generation.question = NULL
  /\ generation' = [generation EXCEPT
                      !.question = generateQuestion(generation.analysis,
                                                    generation.generated)]
  /\ UNCHANGED <<envVars, instance, useInMemory, globalInstance, mem, rds, redisHealth,
                 now, sessionsCreated, questionsGenerated, response, upstream,
                 evaluation, snippet, hintCall, inFlight, ingestion, annotateCall, kv, rate, retry, suspended>>

NextGeneration == GenerateQuestion

SpecGeneration == InitGeneration /\ [][NextGeneration]_vars

\* Ingestion alone: the hosting API answers the listing of the root and of
\* one directory in any way, fails the read of at most one file, and the
\* scope is any list of up to MaxScope of a few directories.
ScopeDirs ==
  {DirA, DirAB, DirAb, <<"b">>, <<Slash, "a", Slash>>, <<Slash>>, <<Slash, Slash, "a">>}
ListOutcomes ==
  {[path \in RepoDirs |-> IF path = RootPath THEN root
                          ELSE IF path = DirA THEN a ELSE "ok"] :
     root \in {"ok", "404", "error"}, a \in {"ok", "404", "error"}}
ReadOutcomes ==
  {[path \in RepoFiles |-> "ok"]}
  \cup {[path \in RepoFiles |-> IF path = file THEN outcome ELSE "ok"] :
          file \in RepoFiles, outcome \in {"empty", "error"}}
ApiBehaviours == [repo : {"ok", "error"}, list : ListOutcomes, read : ReadOutcomes]

InitIngestion ==
  /\ InitStore
  /\ upstream = NoUpstream
  /\ evaluation = NoEvaluation
  /\ snippet = NoSnippet
  /\ hintCall = NoHintCall
  /\ inFlight = NoneInFlight
  /\ generation = NoGeneration
  /\ \E api \in ApiBehaviours, selectedDirectories \in SeqsUpTo(ScopeDirs, MaxScope) :
       ingestion = [api |-> api, selectedDirectories |-> selectedDirectories,
                    result |-> NULL]
  /\ annotateCall = NoAnnotateCall
  /\ kv = NoKv
  /\ rate = NoRate
  /\ retry = NoRetry
  /\ suspended = NotSuspended

FetchRepository ==
  /\ ingestion.result = NULL
  /\ ingestion' = [ingestion EXCEPT
                     !.result = fetchRepository(ingestion.api,
                                                ingestion.selectedDirectories)]
  /\ UNCHANGED <<envVars, instance, useInMemory, globalInstance, mem, rds, redisHealth,
                 now, sessionsCreated, questionsGenerated, response, upstream,
                 evaluation, snippet, hintCall, inFlight, generation, annotateCall, kv, rate, retry, suspended>>

NextIngestion == FetchRepository

SpecIngestion == InitIngestion /\ [][NextIngestion]_vars

\* The question and the answer routes on questions that carry snippets: the
\* question has one or two snippets of a.ts, and each annotation call fails,
\* or is answered with an annotation inside or outside the snippet.  The
\* snippets and replies of a request that reached annotateAllSnippets are kept
\* in annotateCall.
SnippetA == extractCodeSnippet(FileContent("a.ts", MaxLine), 1, 2, "a.ts")
SnippetB == extractCodeSnippet(FileContent("a.ts", MaxLine), 2, 3, "a.ts")
QuestionSnippets == {<<SnippetA>>, <<SnippetA, SnippetB>>}
CallReplies ==
  {[threw |-> TRUE, annotations |-> <<>>],
   [threw |-> FALSE, annotations |-> <<[line |-> 2, type |-> "explanation"]>>],
   [threw |-> FALSE, annotations |-> <<[line |-> 0, type |-> "explanation"]>>]}
RepliesFor(snippets) == [1..Len(snippets) -> CallReplies]

\* session.currentQuestion.codeSnippets as the answer route reads it
CurrentSnippets(sessionId) ==
  IF Visible(sessionId) = NULL THEN <<>>
  ELSE IF Visible(sessionId).currentQuestion = NULL THEN <<>>
  ELSE Visible(sessionId).currentQuestion.codeSnippets

SnippetFrame ==
  UNCHANGED <<envVars, redisHealth, now, upstream, evaluation, snippet, hintCall,
              inFlight, generation, ingestion, kv, rate, retry, suspended>>

NextQuestionWithSnippets ==
  \E sessionId \in SessionIds, generateThrew \in BOOLEAN, codeSnippets \in QuestionSnippets :
  \E replies \in RepliesFor(codeSnippets) :
    /\ questionsGenerated < MaxQuestions
    /\ \E question \in {[id |-> questionsGenerated + 1, codeSnippets |-> codeSnippets]} :
       \E r \in {QuestionRun(World, sessionId, generateThrew, question, replies)} :
       /\ SetWorld(r.w)
       /\ Respond("NextQuestion", sessionId, IF r.ok THEN question.id ELSE NoId, r)
       /\ questionsGenerated' = IF r.status \in {200, 500} /\ ~generateThrew
                                 THEN question.id ELSE questionsGenerated
       /\ annotateCall' = IF r.status \in {200, 500} /\ ~generateThrew
                          THEN [op |-> "NextQuestion", snippets |-> codeSnippets,
                                replies |-> replies]
                          ELSE NoAnnotateCall
    /\ UNCHANGED sessionsCreated
    /\ SnippetFrame

SubmitAnswerWithSnippets ==
  \E req \in AnswerRequests, o \in EvaluateOutcomes :
  \E replies \in RepliesFor(CurrentSnippets(req.sessionId)) :
    /\ Room(req.sessionId, "answer text", MaxAnswers)
    /\ \E r \in {AnswerRun(World, req.sessionId, req.answer, req.questionId, o.threw,
                             [score |-> o.score, isCorrect |-> o.score >= 70,
                              needsHint |-> "false"], replies)} :
         /\ SetWorld(r.w)
         /\ Respond("SubmitAnswer", req.sessionId, req.questionId, r)
         /\ annotateCall' = IF r.status \in {200, 500} /\ ~o.threw
                            THEN [op |-> "SubmitAnswer",
                                  snippets |-> CurrentSnippets(req.sessionId),
                                  replies |-> replies]
                            ELSE NoAnnotateCall
    /\ UNCHANGED <<sessionsCreated, questionsGenerated>>
    /\ SnippetFrame

NextSnippets ==
  \/ StartSession
  \/ Analyze
  \/ NextQuestionWithSnippets
  \/ SubmitAnswerWithSnippets

SpecSnippets == Init /\ [][NextSnippets]_vars

\* Analysis repeated on one session: each Analyze request ingests the
\* repository through fetchRepository, with the whole repository or a/b as its
\* scope and a root listing that succeeds or fails, and what the ingestion
\* returned is kept in ingestion.
ReanalysisApis ==
  {api \in ApiBehaviours :
     /\ api.repo = "ok"
     /\ api.list[DirA] = "ok"
     /\ \A file \in RepoFiles : api.read[file] = "ok"}

AnalyzeAgain ==
  \E sessionId \in SessionIds, directories \in {<<>>, <<DirAB>>}, api \in ReanalysisApis,
     analyzeThrew \in BOOLEAN, cloneThrew \in BOOLEAN :
    /\ Room(sessionId, "analyzing", MaxReanalyses)
    /\ \E fetched \in {fetchRepository(api, directories)} :
       \E r \in {AnalyzeRun(World, sessionId, directories, fetched, analyzeThrew,
                            cloneThrew)} :
         /\ SetWorld(r.w)
         /\ Respond("Analyze", sessionId, NoId, r)
         /\ ingestion' = [api |-> api, selectedDirectories |-> directories,
                          result |-> fetched]
    /\ UNCHANGED <<envVars, redisHealth, now, sessionsCreated, questionsGenerated,
                   upstream, evaluation, snippet, hintCall, inFlight, generation,
                   annotateCall, kv, rate, retry, suspended>>

NextReanalysis ==
  \/ StartSession
  \/ AnalyzeAgain

SpecReanalysis == Init /\ [][NextReanalysis]_vars

RequestedLevels == (0 - Halves(MaxHintLevel))..Halves(MaxHintLevel)

InitHintLevel ==
  /\ InitStore
  /\ upstream = NoUpstream
  /\ evaluation = NoEvaluation
  /\ snippet = NoSnippet
  /\ \E hintLevel \in RequestedLevels :
       hintCall = [NoHintCall EXCEPT !.hintLevel = hintLevel]
  /\ inFlight = NoneInFlight
  /\ generation = NoGeneration
  /\ ingestion = NoIngestion
  /\ annotateCall = NoAnnotateCall
  /\ kv = NoKv
  /\ rate = NoRate
  /\ retry = NoRetry
  /\ suspended = NotSuspended

\* lines 53-63 of the hint route
ClampHintLevel ==
  /\ ~hintCall.done
  /\ \E clampedHintLevel \in {clampHintLevel(hintCall.hintLevel)} :
       hintCall' = [hintLevel |-> hintCall.hintLevel,
                    clampedHintLevel |-> clampedHintLevel,
                    guideline |-> hintGuideline(clampedHintLevel),
                    label |-> formatHintMessage(clampedHintLevel),
                    done |-> TRUE]
  /\ UNCHANGED <<envVars, instance, useInMemory, globalInstance, mem, rds, redisHealth,
                 now, sessionsCreated, questionsGenerated, response, upstream,
                 evaluation, snippet, inFlight, generation, ingestion, annotateCall, kv, rate, retry, suspended>>

NextHintLevel == ClampHintLevel

SpecHintLevel == InitHintLevel /\ [][NextHintLevel]_vars

\* Hints asked repeatedly: a session is started and analysed, questions are
\* issued and hints are requested for the current question, again and again.
NextHints ==
  \/ StartSession
  \/ Analyze
  \/ NextQuestion
  \/ RequestHintAgain

SpecHints == Init /\ [][NextHints]_vars

\* One interview run by one client, request after request as InterviewLayout
\* sends them: start, the whole repository chosen, analysis, a question, its
\* answer, the end.  Every request of the run succeeds; between two requests
\* the client polls the session and time passes.
\* How far the run has come, read off the stored session: the number of
\* requests of the run that were served, or -1 once the session has expired.
RunStage ==
  IF sessionsCreated = 0 THEN 0
  ELSE IF Visible(1) = NULL THEN 0 - 1
  ELSE CASE Len(Visible(1).messages) = 1 /\ Visible(1).status = "selecting_dirs" -> 1
         [] Len(Visible(1).messages) = 1 /\ Visible(1).status # "selecting_dirs" -> 2
         [] Len(Visible(1).messages) = 3 -> 3
         [] Len(Visible(1).messages) = 4 -> 4
         [] Len(Visible(1).messages) = 6 -> 5
         [] OTHER -> 6

RunStartSession ==
  /\ RunStage = 0
  /\ StartSession
  /\ response'.ok

RunSetDirectories ==
  /\ RunStage = 1
  /\ SetDirectories
  /\ response'.ok
  /\ Visible(1)'.selectedDirectories = <<>>

RunAnalyze ==
  /\ RunStage = 2
  /\ Analyze
  /\ response'.ok

RunNextQuestion ==
  /\ RunStage = 3
  /\ NextQuestion
  /\ response'.ok

RunSubmitAnswer ==
  /\ RunStage = 4
  /\ SubmitAnswer
  /\ response'.ok

RunEndSession ==
  /\ RunStage = 5
  /\ EndSession
  /\ response'.ok

\* fetchSession of InterviewLayout, every 3 seconds
RunPoll ==
  /\ RunStage > 0
  /\ GetSession
  /\ response'.sessionId # NoId

NextRun ==
  \/ RunStartSession
  \/ RunSetDirectories
  \/ RunAnalyze
  \/ RunNextQuestion
  \/ RunSubmitAnswer
  \/ RunEndSession
  \/ RunPoll
  \/ AdvanceClock

SpecRun == Init /\ [][NextRun]_vars

\* The manager under a failing store.  A handler reads the session and then
\* calls the manager's mutations one by one; the store may fail between two of
\* these calls, so that a mutation meets a store the handler's read did not.
\* ManagerCall is one such call; its outcome is given the status the routes
\* give it: 500 when it raised, 404 when it returned null, 200 otherwise.
ManagerCalls ==
  {"addMessage", "updateSessionStatus", "setSelectedDirectories", "setAnalysisCache",
   "setCurrentQuestion", "clearCurrentQuestion", "endSession"}

ManagerMutation(w, call, sessionId, question) ==
  CASE call = "addMessage" ->
         addMessage(w, sessionId,
           createMessage("assistant", [text |-> "analyzing", scope |-> "entire repo"],
                         [type |-> "system"]))
    [] call = "updateSessionStatus" -> updateSessionStatus(w, sessionId, "selecting_dirs")
    [] call = "setSelectedDirectories" -> setSelectedDirectories(w, sessionId, <<>>)
    [] call = "setAnalysisCache" ->
         setAnalysisCache(w, sessionId, analyzeRepository(<<"a.ts">>))
    [] call = "setCurrentQuestion" -> setCurrentQuestion(w, sessionId, question)
    [] call = "clearCurrentQuestion" -> clearCurrentQuestion(w, sessionId)
    [] call = "endSession" -> endSession(w, sessionId)

ManagerCall ==
  \E sessionId \in SessionIds, call \in ManagerCalls :
    /\ IF call = "addMessage" THEN Room(sessionId, "analyzing", MaxAnalyses)
       ELSE IF call = "endSession" THEN Room(sessionId, "ended", MaxEnds)
       ELSE IF call = "setCurrentQuestion" THEN questionsGenerated < MaxQuestions
       ELSE TRUE
    /\ \E m \in {ManagerMutation(World, call, sessionId,
                                 [id |-> questionsGenerated + 1, codeSnippets |-> <<>>])} :
         /\ SetWorld(m.w)
         /\ response' = [op |-> call, sessionId |-> sessionId, questionId |-> NoId,
                         ok |-> ~m.threw /\ m.val # NULL,
                         status |-> IF m.threw THEN 500
                                    ELSE IF m.val = NULL THEN 404 ELSE 200]
         /\ questionsGenerated' =
              IF call = "setCurrentQuestion" /\ ~m.threw /\ m.val # NULL
              THEN questionsGenerated + 1 ELSE questionsGenerated
    /\ UNCHANGED sessionsCreated
    /\ Frame

NextFail ==
  \/ StartSession
  \/ GetSession
  \/ ManagerCall
  \/ RedisHealthChange

SpecFail == Init /\ [][NextFail]_vars

\* ------------------------------------------------------ overlapping mutations
\* Each mutation of the manager awaits getSession, changes the object it got
\* and awaits saveSession: two calls on one session may each have read before
\* the other writes.  A caller is idle, has read, or is done; writesSeen is
\* the number of writes completed when it read, order the rank of its write.
RaceCalls ==
  {"addMessage", "updateSessionStatus", "setSelectedDirectories", "setAnalysisCache",
   "setCurrentQuestion", "clearCurrentQuestion"}

\* the fields of the session each mutation assigns
Touched(call) ==
  CASE call = "addMessage" -> {"messages"}
    [] call = "updateSessionStatus" -> {"status"}
    [] call = "setSelectedDirectories" -> {"selectedDirectories", "status"}
    [] call = "setAnalysisCache" -> {"analysisCache", "status"}
    [] call = "setCurrentQuestion" -> {"currentQuestion", "questionsAsked"}
    [] call = "clearCurrentQuestion" -> {"currentQuestion"}

\* the message a caller adds
CallerMessage(caller) ==
  createMessage("user", [text |-> "answer", caller |-> caller],
                [type |-> "answer", questionId |-> caller])

\* the statements of a mutation between its read and its save, with the
\* arguments of the caller
Mutated(call, session, caller) ==
  CASE call = "addMessage" ->
         [session EXCEPT !.messages = Append(@, CallerMessage(caller))]
    [] call = "updateSessionStatus" ->
         [session EXCEPT !.status = IF caller = 1 THEN "selecting_dirs" ELSE "active"]
    [] call = "setSelectedDirectories" ->
         [session EXCEPT !.selectedDirectories = IF caller = 1 THEN <<"src">> ELSE <<>>,
                         !.status = "analyzing"]
    [] call = "setAnalysisCache" ->
         [session EXCEPT !.analysisCache =
                           analyzeRepository(IF caller = 1 THEN <<"a.ts">> ELSE <<>>),
                         !.status = "active"]
    [] call = "setCurrentQuestion" ->
         [session EXCEPT !.currentQuestion = [id |-> caller, codeSnippets |-> <<>>],
                         !.questionsAsked = Append(@, caller)]
    [] call = "clearCurrentQuestion" ->
         [session EXCEPT !.currentQuestion = NULL]

\* the session a mutation changes and saves as it would be if it were read
\* again when the save begins
HeldSessionReread(w, sessionId, session) ==
  Bind(getSession(w, sessionId), LAMBDA g : IF g.val = NULL THEN session ELSE g.val)

\* the session a mutation changes and saves: the object its getSession returned
HeldSession(w, sessionId, session) == session

WritesDone == Cardinality({caller \in Callers : inFlight[caller].stage = "done"})

RaceFrame ==
  UNCHANGED <<envVars, redisHealth, now, sessionsCreated, questionsGenerated, response,
              upstream, evaluation, snippet, hintCall, generation, ingestion, annotateCall, kv, rate, retry, suspended>>

\* const session = await getSession(sessionId); if (!session) return null;
ReadForMutation ==
  \E caller \in Callers, call \in RaceCalls, sessionId \in SessionIds :
    /\ inFlight[caller].stage = "idle"
    /\ \E g \in {getSession(World, sessionId)} :
         /\ SetWorld(g.w)
         /\ inFlight' =
              IF g.val = NULL THEN inFlight
              ELSE [inFlight EXCEPT ![caller] =
                      [stage |-> "read", call |-> call, sessionId |-> sessionId,
                       session |-> g.val, writesSeen |-> WritesDone,
                       saved |-> NULL, order |-> 0]]
    /\ RaceFrame

\* the assignments of the mutation and await saveSession(session)
WriteForMutation ==
  \E caller \in Callers :
    /\ inFlight[caller].stage = "read"
    /\ \E held \in {HeldSession(World, inFlight[caller].sessionId,
                                inFlight[caller].session)} :
       \E s \in {saveSession(World, Mutated(inFlight[caller].call, held, caller))} :
         /\ SetWorld(s.w)
         /\ inFlight' =
              [inFlight EXCEPT ![caller].stage = IF s.threw THEN "failed" ELSE "done",
                               ![caller].saved = s.val,
                               ![caller].order = WritesDone + 1]
    /\ RaceFrame

NextRace ==
  \/ StartSession
  \/ ReadForMutation
  \/ WriteForMutation

SpecRace == Init /\ [][NextRace]_vars

\* --------------------------------------------- the in-process store alone
\* InMemoryStore driven directly with get, setex, del and the clock, next to
\* a reference key-value store with a TTL: kv.ref holds, for each key, the
\* value last written and the instant it expires until the key is deleted.
StoreValues == {[text |-> "v1"], [text |-> "v2"], [text |-> "v3"]}
\* the TTLs given to setex: one second, and the TTL of a session
StoreTtls == {1, SESSION_TTL}

\* the reference store: a key is there until its TTL has elapsed
RefLive(ref, key) == IF ref[key] = NULL THEN FALSE ELSE now <= ref[key].expiry
RefGet(ref, key) == IF RefLive(ref, key) THEN ref[key].value ELSE NULL
RefDel(ref, key) == IF RefLive(ref, key) THEN 1 ELSE 0

InitMemStore ==
  /\ nodeEnv = "development"
  /\ forceRedis = FALSE
  /\ useInMemoryStoreEnv = FALSE
  /\ instance = "memory"
  /\ useInMemory = TRUE
  /\ globalInstance = "memory"
  /\ mem = [k \in SessionIds |-> NULL]
  /\ rds = [k \in SessionIds |-> NULL]
  /\ redisHealth = "up"
  /\ now = 0
  /\ sessionsCreated = 0
  /\ questionsGenerated = 0
  /\ response = NoResponse
  /\ upstream = NoUpstream
  /\ evaluation = NoEvaluation
  /\ snippet = NoSnippet
  /\ hintCall = NoHintCall
  /\ inFlight = NoneInFlight
  /\ generation = NoGeneration
  /\ ingestion = NoIngestion
  /\ annotateCall = NoAnnotateCall
  /\ kv = NoKv
  /\ rate = NoRate
  /\ retry = NoRetry
  /\ suspended = NotSuspended

MemStoreFrame ==
  UNCHANGED <<envVars, redisHealth, now, sessionsCreated, questionsGenerated, response,
              upstream, evaluation, snippet, hintCall, inFlight, generation, ingestion,
              annotateCall, rate, retry, suspended>>

StoreGet ==
  \E key \in SessionIds :
    /\ \E g \in {MemGet(World, key)} :
         /\ SetWorld(g.w)
         /\ kv' = [kv EXCEPT !.op = "get", !.key = key, !.result = g.val,
                             !.expected = RefGet(kv.ref, key)]
    /\ MemStoreFrame

StoreSetex ==
  \E key \in SessionIds, seconds \in StoreTtls, value \in StoreValues :
    /\ \E s \in {MemSetex(World, key, seconds, value)} :
         /\ SetWorld(s.w)
         /\ kv' = [kv EXCEPT !.ref[key] = [value |-> value,
                                            expiry |-> now + seconds * 1000],
                             !.op = "setex", !.key = key, !.result = "OK",
                             !.expected = "OK"]
    /\ MemStoreFrame

StoreDel ==
  \E key \in SessionIds :
    /\ \E d \in {MemDel(World, key)} :
         /\ SetWorld(d.w)
         /\ kv' = [kv EXCEPT !.ref[key] = NULL, !.op = "del", !.key = key,
                             !.result = d.val, !.expected = RefDel(kv.ref, key)]
    /\ MemStoreFrame

\* deleteSession of the manager on the in-process store: result > 0
StoreDeleteSession ==
  \E key \in SessionIds :
    /\ \E d \in {deleteSession(World, key)} :
         /\ SetWorld(d.w)
         /\ kv' = [kv EXCEPT !.ref[key] = NULL, !.op = "deleteSession", !.key = key,
                             !.result = d.val, !.expected = RefDel(kv.ref, key) > 0]
    /\ MemStoreFrame

NextMemStore ==
  \/ StoreGet
  \/ StoreSetex
  \/ StoreDel
  \/ StoreDeleteSession
  \/ AdvanceClock

SpecMemStore == InitMemStore /\ [][NextMemStore]_vars

\* ------------------------------------------------------------ rate limiter
\* rateLimitStore is a Map from identifier to {count, resetTime}; an
\* identifier without an entry maps to NULL.
RateIdentifiers == {"user:ip", "global"}

\* checkRateLimit as it would be if it refused only above maxRequests
checkRateLimitAbove(store, identifier, maxRequests, windowMs) ==
  IF (IF store[identifier] = NULL THEN TRUE ELSE store[identifier].resetTime < now)
  THEN [store |-> [store EXCEPT ![identifier] = [count |-> 1, resetTime |-> now + windowMs]],
        result |-> [allowed |-> TRUE, remaining |-> maxRequests - 1,
                    resetTime |-> now + windowMs]]
  ELSE IF store[identifier].count > maxRequests
  THEN [store |-> store,
        result |-> [allowed |-> FALSE, remaining |-> 0,
                    resetTime |-> store[identifier].resetTime]]
  ELSE [store |-> [store EXCEPT ![identifier].count = @ + 1],
        result |-> [allowed |-> TRUE,
                    remaining |-> maxRequests - (store[identifier].count + 1),
                    resetTime |-> store[identifier].resetTime]]

\* checkRateLimit(identifier, maxRequests, windowMs): [store, result]
checkRateLimit(store, identifier, maxRequests, windowMs) ==
  IF (IF store[identifier] = NULL THEN TRUE ELSE store[identifier].resetTime < now)
  THEN [store |-> [store EXCEPT ![identifier] = [count |-> 1, resetTime |-> now + windowMs]],
        result |-> [allowed |-> TRUE, remaining |-> maxRequests - 1,
                    resetTime |-> now + windowMs]]
  ELSE IF store[identifier].count >= maxRequests
  THEN [store |-> store,
        result |-> [allowed |-> FALSE, remaining |-> 0,
                    resetTime |-> store[identifier].resetTime]]
  ELSE [store |-> [store EXCEPT ![identifier].count = @ + 1],
        result |-> [allowed |-> TRUE,
                    remaining |-> maxRequests - (store[identifier].count + 1),
                    resetTime |-> store[identifier].resetTime]]

\* The module is loaded: the store is empty; the route passes the same
\* limit and window on every call.
InitRate ==
  /\ InitStore
  /\ upstream = NoUpstream
  /\ evaluation = NoEvaluation
  /\ snippet = NoSnippet
  /\ hintCall = NoHintCall
  /\ inFlight = NoneInFlight
  /\ generation = NoGeneration
  /\ ingestion = NoIngestion
  /\ annotateCall = NoAnnotateCall
  /\ kv = NoKv
  /\ \E maxRequests \in 1..MaxRateLimit :
       rate = [store |-> [identifier \in RateIdentifiers |-> NULL],
               maxRequests |-> maxRequests, windowMs |-> RateWindowMs, calls |-> <<>>]
  /\ retry = NoRetry
  /\ suspended = NotSuspended

RateFrame ==
  UNCHANGED <<envVars, instance, useInMemory, globalInstance, mem, rds, redisHealth,
              sessionsCreated, questionsGenerated, response, upstream, evaluation,
              snippet, hintCall, inFlight, generation, ingestion, annotateCall, kv, retry, suspended>>

\* one call of checkRateLimit; rate.calls keeps what each call returned
CheckRateLimit ==
  \E identifier \in RateIdentifiers :
    /\ Len(rate.calls) < MaxRateCalls
    /\ \E c \in {checkRateLimit(rate.store, identifier, rate.maxRequests,
                                rate.windowMs)} :
         rate' = [rate EXCEPT !.store = c.store,
                              !.calls = Append(@, [identifier |-> identifier, at |-> now,
                                                   result |-> c.result])]
    /\ UNCHANGED now
    /\ RateFrame

\* the timer of the module: every entry whose window has passed is deleted
RateCleanup ==
  /\ \E identifier \in RateIdentifiers :
       IF rate.store[identifier] = NULL THEN FALSE
       ELSE rate.store[identifier].resetTime < now
  /\ rate' = [rate EXCEPT !.store =
                [identifier \in RateIdentifiers |->
                   IF rate.store[identifier] = NULL THEN NULL
                   ELSE IF rate.store[identifier].resetTime < now THEN NULL
                   ELSE rate.store[identifier]]]
  /\ UNCHANGED now
  /\ RateFrame

\* a millisecond passes
RateTick ==
  /\ now < MaxRateTime
  /\ now' = now + 1
  /\ UNCHANGED rate
  /\ RateFrame

NextRate ==
  \/ CheckRateLimit
  \/ RateCleanup
  \/ RateTick

SpecRate == InitRate /\ [][NextRate]_vars

\* ------------------------------------------------------- retryWithBackoff
\* An invocation of fn resolves (status 200) or rejects with an error that
\* carries the status of the response.
FnStatuses == {200, 404, 429, 500}

RECURSIVE Pow(_, _)
Pow(base, exponent) == IF exponent = 0 THEN 1 ELSE base * Pow(base, exponent - 1)

\* the options of a call: DEFAULT_OPTIONS with maxAttempts, maxDelayMs and
\* backoffMultiplier overridden
RetryOptionChoices ==
  [maxAttempts : 1..MaxAttempts, initialDelayMs : {1000}, maxDelayMs : {3000, 10000},
   backoffMultiplier : {1, 2}]

\* retryableErrors of the callers that fetch from the hosting API
retryableErrors(error) == error.status = 429 \/ error.status >= 500

\* the test of the catch block as it would be without retryableErrors
rethrowOnLastAttempt(opts, attempt, error) == attempt = opts.maxAttempts

\* if (attempt === opts.maxAttempts || !opts.retryableErrors(error)) throw error
rethrow(opts, attempt, error) ==
  IF attempt = opts.maxAttempts THEN TRUE ELSE ~retryableErrors(error)

\* Math.min(initialDelayMs * Math.pow(backoffMultiplier, attempt - 1), maxDelayMs)
backoffDelay(opts, attempt) ==
  Min(opts.initialDelayMs * Pow(opts.backoffMultiplier, attempt - 1), opts.maxDelayMs)

\* Math.random() * 0.3 * delay: the least and the greatest whole jitter
Jitters(delay) == {0, (3 * delay) \div 10 - 1}

\* retryWithBackoff has been called and is about to invoke fn for the first time
InitRetry ==
  /\ InitStore
  /\ upstream = NoUpstream
  /\ evaluation = NoEvaluation
  /\ snippet = NoSnippet
  /\ hintCall = NoHintCall
  /\ inFlight = NoneInFlight
  /\ generation = NoGeneration
  /\ ingestion = NoIngestion
  /\ annotateCall = NoAnnotateCall
  /\ kv = NoKv
  /\ rate = NoRate
  /\ \E opts \in RetryOptionChoices :
       retry = [opts |-> opts, attempt |-> 1, pc |-> "calling", log |-> <<>>,
                delays |-> <<>>, slept |-> 0, settled |-> 0]
  /\ suspended = NotSuspended

RetryFrame ==
  UNCHANGED <<envVars, instance, useInMemory, globalInstance, mem, rds, redisHealth, now,
              sessionsCreated, questionsGenerated, response, upstream, evaluation,
              snippet, hintCall, inFlight, generation, ingestion, annotateCall, kv, rate, suspended>>

\* one turn of the loop: fn is invoked and settles; the call returns its
\* value, rethrows its error, or computes the delay and starts the timer.
\* settled is the invocation whose value or error the call settled with.
RetryInvoke ==
  /\ retry.pc = "calling"
  /\ retry.attempt <= retry.opts.maxAttempts
  /\ \E status \in FnStatuses :
       IF status = 200
       THEN retry' = [retry EXCEPT !.log = Append(@, [status |-> status]),
                                   !.pc = "returned", !.settled = Len(retry.log) + 1]
       ELSE IF rethrow(retry.opts, retry.attempt, [status |-> status])
       THEN retry' = [retry EXCEPT !.log = Append(@, [status |-> status]),
                                   !.pc = "threw", !.settled = Len(retry.log) + 1]
       ELSE \E jitter \in Jitters(backoffDelay(retry.opts, retry.attempt)) :
              retry' = [retry EXCEPT
                          !.log = Append(@, [status |-> status]),
                          !.pc = "sleeping",
                          !.delays = Append(@, backoffDelay(retry.opts, retry.attempt)),
                          !.slept = backoffDelay(retry.opts, retry.attempt) + jitter]
  /\ RetryFrame

\* the timer fires and the loop goes on to the next attempt
RetryWake ==
  /\ retry.pc = "sleeping"
  /\ retry' = [retry EXCEPT !.pc = "calling", !.attempt = @ + 1]
  /\ RetryFrame

NextRetry ==
  \/ RetryInvoke
  \/ RetryWake

\* every invocation of fn settles and every timer fires
SpecRetry == InitRetry /\ [][NextRetry]_vars /\ WF_vars(NextRetry)

\* ------------------------------------------------- requests that overlap
\* A handler gives way at every await; the long ones are the calls of the
\* completion service.  One request at a time is followed across that await:
\* it has read the session and passed its checks (Begin), other requests are
\* handled whole while it waits, and it goes on with the session object it
\* read (Resume).

\* POST /api/interview/question from the return of generateQuestion on
QuestionResumeRun(w, sessionId, generateThrew, question, replies) ==
  IF generateThrew THEN Result(w, FALSE, 500)
  ELSE Bind(IF Len(question.codeSnippets) > 0
            THEN annotateAllSnippets(question.codeSnippets, replies)
            ELSE [threw |-> FALSE, val |-> question.codeSnippets], LAMBDA a :
  IF a.threw THEN Result(w, FALSE, 500)
  ELSE Bind(setCurrentQuestion(w, sessionId,
                               [question EXCEPT !.codeSnippets = a.val]), LAMBDA q :
  IF q.threw THEN Result(q.w, FALSE, 500)
  ELSE Bind(addMessage(q.w, sessionId,
              createMessage("assistant", [text |-> "question"],
                [type |-> "question", questionId |-> question.id,
                 codeSnippets |-> a.val])), LAMBDA m :
  IF m.threw THEN Result(m.w, FALSE, 500) ELSE Result(m.w, TRUE, 200))))

\* POST /api/interview/answer from the return of evaluateAnswer on; session
\* is the object the handler read before it appended the answer
AnswerResumeRun(w, session, sessionId, questionId, evaluateThrew, result, replies) ==
  IF evaluateThrew THEN Result(w, FALSE, 500)
  ELSE Bind(IF Len(session.currentQuestion.codeSnippets) > 0
            THEN annotateAllSnippets(session.currentQuestion.codeSnippets, replies)
            ELSE [threw |-> FALSE, val |-> session.currentQuestion.codeSnippets], LAMBDA a :
  IF a.threw THEN Result(w, FALSE, 500)
  ELSE Bind(addMessage(w, sessionId,
              createMessage("assistant", [text |-> "evaluation"],
                [type |-> "evaluation", questionId |-> questionId,
                 score |-> evaluateAnswer(result).score,
                 codeSnippets |-> a.val])), LAMBDA m2 :
  IF m2.threw THEN Result(m2.w, FALSE, 500)
  ELSE Bind(clearCurrentQuestion(m2.w, sessionId), LAMBDA c :
  IF c.threw THEN Result(c.w, FALSE, 500) ELSE Result(c.w, TRUE, 200))))

OverlapFrame ==
  UNCHANGED <<envVars, redisHealth, now, sessionsCreated, upstream, evaluation, snippet,
              hintCall, inFlight, generation, ingestion, annotateCall, kv, rate, retry>>

\* the question route reads the session, passes its checks and calls
\* generateQuestion
QuestionBegin ==
  \E sessionId \in SessionIds :
    /\ suspended.op = "none"
    /\ questionsGenerated < MaxQuestions
    /\ \E g \in {getSession(World, sessionId)} :
         /\ g.val # NULL
         /\ g.val.analysisCache # NULL
         /\ g.val.status # "ended"
         /\ SetWorld(g.w)
         /\ suspended' = [op |-> "NextQuestion", sessionId |-> sessionId,
                          questionId |-> NoId, session |-> g.val]
    /\ UNCHANGED <<response, questionsGenerated>>
    /\ OverlapFrame

\* generateQuestion returns or throws and the question route runs to its end
QuestionResume ==
  \E generateThrew \in BOOLEAN :
    /\ suspended.op = "NextQuestion"
    /\ \E question \in {[id |-> questionsGenerated + 1, codeSnippets |-> <<>>]} :
       \E r \in {QuestionResumeRun(World, suspended.sessionId, generateThrew,
                                   question, <<>>)} :
       /\ SetWorld(r.w)
       /\ Respond("NextQuestion", suspended.sessionId,
                  IF r.ok THEN question.id ELSE NoId, r)
       /\ questionsGenerated' = IF generateThrew THEN questionsGenerated ELSE question.id
    /\ suspended' = NotSuspended
    /\ OverlapFrame

\* the answer route reads the session, passes its checks, appends the answer
\* and calls evaluateAnswer
AnswerBegin ==
  \E req \in AnswerRequests :
    /\ suspended.op = "none"
    /\ req.answer # ""
    /\ Room(req.sessionId, "answer text", MaxAnswers)
    /\ \E g \in {getSession(World, req.sessionId)} :
         /\ g.val # NULL
         /\ QuestionMatches(g.val, req.questionId)
         /\ g.val.analysisCache # NULL
         /\ \E m1 \in {addMessage(g.w, req.sessionId,
                         createMessage("user", [text |-> req.answer],
                           [type |-> "answer", questionId |-> req.questionId]))} :
              /\ ~m1.threw
              /\ SetWorld(m1.w)
              /\ suspended' = [op |-> "SubmitAnswer", sessionId |-> req.sessionId,
                               questionId |-> req.questionId, session |-> g.val]
    /\ UNCHANGED <<response, questionsGenerated>>
    /\ OverlapFrame

\* evaluateAnswer returns or throws and the answer route runs to its end
AnswerResume ==
  \E o \in EvaluateOutcomes :
    /\ suspended.op = "SubmitAnswer"
    /\ \E r \in {AnswerResumeRun(World, suspended.session, suspended.sessionId,
                                 suspended.questionId, o.threw,
                                 [score |-> o.score, isCorrect |-> o.score >= 70,
                                  needsHint |-> "false"], <<>>)} :
         SetWorld(r.w) /\ Respond("SubmitAnswer", suspended.sessionId,
                                  suspended.questionId, r)
    /\ suspended' = NotSuspended
    /\ UNCHANGED questionsGenerated
    /\ OverlapFrame

NextOverlap ==
  \/ StartSession
  \/ Analyze
  \/ NextQuestion
  \/ EndSession
  \/ QuestionBegin
  \/ QuestionResume
  \/ AnswerBegin
  \/ AnswerResume

SpecOverlap == Init /\ [][NextOverlap]_vars

TypeOK ==
  /\ instance \in {"null", "redis", "memory"}
  /\ useInMemory \in BOOLEAN
  /\ now \in Nat

\* ------------------------------------------------------------------- claims
IsPrefix(s, t) == Len(s) <= Len(t) /\ SubSeq(t, 1, Len(s)) = s

\* The status of the stored session, "absent" when a read returns null.
StatusOf(session) == IF session = NULL THEN "absent" ELSE session.status

\* The id of the session's current question, NoId when it has none.
CurrentQuestionId(session) ==
  IF session = NULL THEN NoId
  ELSE IF session.currentQuestion = NULL THEN NoId
  ELSE session.currentQuestion.id

\* C1: once the stored status of a session is ended, no later boundary
\* operation stores it with another status.
C1_EndedIsTerminal ==
  [][\A id \in SessionIds :
       (StatusOf(Visible(id)) = "ended" /\ StatusOf(Visible(id)') # "absent")
         => StatusOf(Visible(id)') = "ended"]_vars

\* The documented edges between the three statuses before ended.
DocumentedEdges ==
  {<<"selecting_dirs", "analyzing", "SetDirectories", TRUE>>,
   <<"analyzing", "active", "Analyze", TRUE>>,
   <<"analyzing", "selecting_dirs", "Analyze", FALSE>>}

\* C2: every change of the stored status of a session is a documented edge,
\* made by the operation documented for it: selecting_dirs to analyzing by
\* SetDirectories, analyzing to active by a successful Analyze, analyzing to
\* selecting_dirs by a failed Analyze, anything to ended by EndSession.
C2_OnlyDocumentedEdges ==
  [][\A id \in SessionIds :
       (/\ StatusOf(Visible(id)) # "absent"
        /\ StatusOf(Visible(id)') # "absent"
        /\ StatusOf(Visible(id)') # StatusOf(Visible(id)))
         => \/ StatusOf(Visible(id)') = "ended" /\ response'.op = "EndSession"
            \/ <<StatusOf(Visible(id)), StatusOf(Visible(id)'), response'.op,
                 response'.ok>> \in DocumentedEdges]_vars

\* C3: in every stored session, currentQuestion is non-null only if the
\* status is active.
C3_QuestionOnlyWhileActive ==
  \A id \in SessionIds :
    CurrentQuestionId(Visible(id)) # NoId => StatusOf(Visible(id)) = "active"

\* C4: a SubmitAnswer whose questionId is not the id of the session's current
\* question, or that finds no current question, fails and leaves the stored
\* session (its messages included) as it was.
C4_MismatchedAnswerRejected ==
  [][\A id \in SessionIds :
       (/\ response'.op = "SubmitAnswer"
        /\ response'.sessionId = id
        /\ Visible(id) # NULL
        /\ CurrentQuestionId(Visible(id)) # response'.questionId)
         => (~response'.ok /\ Visible(id)' = Visible(id))]_vars

\* A SubmitAnswer for question 2 was refused while question 1 is current.
C4_Witness ==
  /\ response.op = "SubmitAnswer"
  /\ response.sessionId = 1
  /\ response.questionId = 2
  /\ ~response.ok
  /\ response.status = 400
  /\ CurrentQuestionId(Visible(1)) = 1

\* C5: questionsAsked is append-only: each stored questionsAsked of a session
\* has the one stored before it as a prefix.
C5_QuestionsAskedAppendOnly ==
  [][\A id \in SessionIds :
       (Visible(id) # NULL /\ Visible(id)' # NULL)
         => IsPrefix(Visible(id).questionsAsked, Visible(id)'.questionsAsked)]_vars

\* A second question was issued to a session that had been asked one.
C5_Witness ==
  /\ response.op = "NextQuestion"
  /\ response.ok
  /\ Visible(1) # NULL
  /\ Visible(1).questionsAsked = <<1, 2>>

\* C6: the message log is append-only: each stored messages list of a session
\* has the one stored before it as a prefix.
C6_MessagesAppendOnly ==
  [][\A id \in SessionIds :
       (Visible(id) # NULL /\ Visible(id)' # NULL)
         => IsPrefix(Visible(id).messages, Visible(id)'.messages)]_vars

\* A session that was analysed, asked a question and answered it is ended: its
\* log holds the welcome, the two analysis messages, the question, the answer,
\* the evaluation and the ending.
C6_Witness ==
  /\ response.op = "EndSession"
  /\ response.ok
  /\ Visible(1) # NULL
  /\ Len(Visible(1).messages) >= 7
  /\ CountMessages(Visible(1).messages, "evaluation") = 1

\* C7: once the client has fallen back to the in-process store, every
\* unexpired session that was written to the Redis server is still returned by
\* a read, with the content that was written.
C7_FallbackKeepsSessions ==
  \A id \in SessionIds :
    (useInMemory /\ rds[id] # NULL /\ ~(now > rds[id].expiry))
      => Visible(id) = JSONparse(rds[id].value)

\* What the in-process store alone holds for a session now.
MemView(id) ==
  IF mem[id] = NULL THEN NULL
  ELSE IF now > mem[id].expiry THEN NULL
  ELSE JSONparse(mem[id].value)

\* C8: the fallback is one-way: once useInMemory is true it stays true, the
\* client stays the in-process store, nothing is written to the Redis server
\* again and every read is answered by the in-process store.
C8_FallbackOneWay ==
  [][useInMemory =>
       /\ useInMemory'
       /\ instance' = "memory"
       /\ rds' = rds
       /\ \A id \in SessionIds : Visible(id)' = MemView(id)']_vars

\* The client was started on Redis and fell back; the server is reachable
\* again, and a session created since is read from the in-process store alone.
C8_Witness ==
  /\ useInMemory
  /\ forceRedis
  /\ ~useInMemoryStoreEnv
  /\ redisHealth = "up"
  /\ mem[1] # NULL
  /\ rds[1] = NULL
  /\ response.op = "GetSession"
  /\ response.ok

\* C9: for every numeric score of the reply, the returned score is in [0,100]
\* and the returned isCorrect is (score >= 70), for the score of the reply and
\* for the returned score alike, whatever isCorrect the reply carried.
C9_ScoreClampedAndCorrectRecomputed ==
  evaluation.done =>
    /\ evaluation.result.score \in 0..100
    /\ evaluation.result.isCorrect = (evaluation.result.score >= 70)
    /\ evaluation.result.isCorrect = (upstream.result.score >= 70)

\* The reply carried score 150 and isCorrect false.
C9_Witness ==
  /\ evaluation.done
  /\ upstream.result.score = 150
  /\ ~upstream.result.isCorrect
  /\ evaluation.result.score = 100
  /\ evaluation.result.isCorrect

\* C10: the returned needsHint is true exactly when the needsHint of the reply
\* is true or the returned score is below 50.
C10_NeedsHintIsOr ==
  evaluation.done =>
    (evaluation.result.needsHint =
       ((upstream.result.needsHint = "true") \/ evaluation.result.score < 50))

\* The reply said needsHint false with a score below 50, negative included.
C10_Witness ==
  /\ evaluation.done
  /\ upstream.result.needsHint = "false"
  /\ upstream.result.score = 0 - 10
  /\ evaluation.result.score = 0
  /\ evaluation.result.needsHint

\* C11: every annotation of a snippet the annotator returns lies on a line of
\* the snippet, whatever lines the reply names and whether or not the
\* completion fails.
C11_AnnotationsInRange ==
  \A i \in 1..Len(snippet.annotations) :
    /\ snippet.startLine <= snippet.annotations[i].line
    /\ snippet.annotations[i].line <= snippet.endLine

\* A snippet of lines 2..3 carries an annotation kept from a reply and, after
\* it, a highlight.
C11_Witness ==
  /\ snippet.startLine = 2
  /\ snippet.endLine = 3
  /\ Len(snippet.annotations) = 2
  /\ snippet.annotations[1] = Annotation(3, "explanation")
  /\ snippet.annotations[2] = Annotation(2, "key-point")

\* C12: the hint level handed to the hint generator and used for the label is
\* one of 1, 2 and 3, for every level a request carries (0, 4, negative and
\* non-integer levels included), and the label is the one of that level.
C12_HintLevelOneOfThree ==
  hintCall.done =>
    /\ hintCall.clampedHintLevel \in {Halves(1), Halves(2), Halves(3)}
    /\ hintCall.guideline = hintCall.clampedHintLevel
    /\ hintCall.label = CASE hintCall.clampedHintLevel = Halves(1) -> "Gentle"
                          [] hintCall.clampedHintLevel = Halves(2) -> "Moderate"
                          [] OTHER -> "Strong"

\* The hint messages of a log that were issued for one question.
HintsFor(messages, questionId) ==
  {i \in 1..Len(messages) :
     /\ messages[i].metadata.type = "hint"
     /\ messages[i].metadata.questionId = questionId}

\* C13: for any one question at most HintsPerQuestion hints are ever issued: a
\* RequestHint after that many successful ones for the question appends no
\* further hint message.
C13_AtMostThreeHints ==
  \A id \in SessionIds, questionId \in QuestionIds :
    Visible(id) # NULL =>
      Cardinality(HintsFor(Visible(id).messages, questionId)) <= HintsPerQuestion

\* C14: the current question of a session only goes from none to a question,
\* by NextQuestion, and from a question to none, by SubmitAnswer or
\* EndSession; it never goes from one question to another.
C14_QuestionCycles ==
  [][\A id \in SessionIds :
       (/\ Visible(id) # NULL
        /\ Visible(id)' # NULL
        /\ CurrentQuestionId(Visible(id)') # CurrentQuestionId(Visible(id)))
         => IF CurrentQuestionId(Visible(id)) = NoId
            THEN response'.op = "NextQuestion"
            ELSE /\ CurrentQuestionId(Visible(id)') = NoId
                 /\ response'.op \in {"SubmitAnswer", "EndSession"}]_vars

\* The texts of the messages of a log, in order.
Texts(messages) == [i \in 1..Len(messages) |-> messages[i].content.text]

\* What the stored session is documented to be after each request of the run:
\* its status, whether it has a current question, and its log.
DocumentedRun ==
  [StartSession |-> [status |-> "selecting_dirs", asked |-> FALSE,
                     log |-> <<"welcome">>],
   SetDirectories |-> [status |-> "analyzing", asked |-> FALSE,
                       log |-> <<"welcome">>],
   Analyze |-> [status |-> "active", asked |-> FALSE,
                log |-> <<"welcome", "analyzing", "analysis complete">>],
   NextQuestion |-> [status |-> "active", asked |-> TRUE,
                     log |-> <<"welcome", "analyzing", "analysis complete", "question">>],
   SubmitAnswer |-> [status |-> "active", asked |-> FALSE,
                     log |-> <<"welcome", "analyzing", "analysis complete", "question",
                               "answer text", "evaluation">>],
   EndSession |-> [status |-> "ended", asked |-> FALSE,
                   log |-> <<"welcome", "analyzing", "analysis complete", "question",
                             "answer text", "evaluation", "ended">>]]

\* C15: along the run StartSession, SetDirectories([]), Analyze, NextQuestion,
\* SubmitAnswer, EndSession the stored status is selecting_dirs, analyzing,
\* active, active, active, ended in turn, the current question is set after
\* NextQuestion and null after SubmitAnswer, and the log gains a question, an
\* answer, an evaluation and the closing message, in this order.
C15_RunAsDocumented ==
  [][\A op \in DOMAIN DocumentedRun :
       (response'.op = op /\ response'.ok)
         => /\ StatusOf(Visible(1)') = DocumentedRun[op].status
            /\ (CurrentQuestionId(Visible(1)') # NoId) = DocumentedRun[op].asked
            /\ Visible(1)' # NULL
            /\ Texts(Visible(1)'.messages) = DocumentedRun[op].log]_vars

\* The run has come to its end: the session is ended, with the whole log.
C15_Witness ==
  /\ response.op = "EndSession"
  /\ response.ok
  /\ Visible(1) # NULL
  /\ Visible(1).status = "ended"
  /\ Visible(1).questionsAsked = <<1>>
  /\ Texts(Visible(1).messages) = DocumentedRun.EndSession.log

\* C16: EndSession on an existing session succeeds, stores status ended and no
\* current question, and appends exactly one message, the closing one, whose
\* count is the length of questionsAsked; selectedDirectories, questionsAsked,
\* analysisCache and the earlier messages are as before.
C16_EndSessionEffect ==
  [][\A id \in SessionIds :
       (response'.op = "EndSession" /\ response'.sessionId = id /\ Visible(id) # NULL)
         => /\ response'.ok
            /\ Visible(id)' # NULL
            /\ Visible(id)'.status = "ended"
            /\ Visible(id)'.currentQuestion = NULL
            /\ Len(Visible(id)'.messages) = Len(Visible(id).messages) + 1
            /\ SubSeq(Visible(id)'.messages, 1, Len(Visible(id).messages))
                 = Visible(id).messages
            /\ Visible(id)'.messages[Len(Visible(id)'.messages)].content
                 = [text |-> "ended", count |-> Len(Visible(id).questionsAsked)]
            /\ Visible(id)'.selectedDirectories = Visible(id).selectedDirectories
            /\ Visible(id)'.questionsAsked = Visible(id).questionsAsked
            /\ Visible(id)'.analysisCache = Visible(id).analysisCache]_vars

\* A session that was asked two questions and chose a directory is ended; the
\* closing message counts two.
C16_Witness ==
  /\ response.op = "EndSession"
  /\ response.ok
  /\ Visible(1) # NULL
  /\ Visible(1).status = "ended"
  /\ Visible(1).questionsAsked = <<1, 2>>
  /\ Visible(1).selectedDirectories = <<"src">>
  /\ Visible(1).messages[Len(Visible(1).messages)].content = [text |-> "ended", count |-> 2]

\* C17: NextQuestion fails when the session has no cached analysis, when its
\* status is ended and when no question could be generated, and a NextQuestion
\* that fails leaves the stored session as it was (currentQuestion,
\* questionsAsked and messages included).
C17_NextQuestionFailures ==
  [][\A id \in SessionIds :
       (response'.op = "NextQuestion" /\ response'.sessionId = id /\ Visible(id) # NULL)
         => /\ Visible(id).analysisCache = NULL => ~response'.ok
            /\ Visible(id).status = "ended" => ~response'.ok
            /\ questionsGenerated' = questionsGenerated => ~response'.ok
            /\ ~response'.ok => Visible(id)' = Visible(id)]_vars

\* A NextQuestion was refused on an ended session that has its analysis.
C17_Witness ==
  /\ response.op = "NextQuestion"
  /\ ~response.ok
  /\ response.status = 400
  /\ Visible(1) # NULL
  /\ Visible(1).status = "ended"
  /\ Visible(1).analysisCache # NULL

\* C18: a RequestHint whose questionId is not the id of the current question,
\* or that finds no current question, fails and leaves the stored session as
\* it was; one that succeeds appends exactly one message, a hint carrying that
\* question id, and leaves currentQuestion, questionsAsked, status and
\* analysisCache as they were.
C18_RequestHintEffect ==
  [][\A id \in SessionIds :
       (response'.op = "RequestHint" /\ response'.sessionId = id /\ Visible(id) # NULL)
         => IF CurrentQuestionId(Visible(id)) # response'.questionId
            THEN ~response'.ok /\ Visible(id)' = Visible(id)
            ELSE response'.ok =>
                   /\ Visible(id)' # NULL
                   /\ Len(Visible(id)'.messages) = Len(Visible(id).messages) + 1
                   /\ SubSeq(Visible(id)'.messages, 1, Len(Visible(id).messages))
                        = Visible(id).messages
                   /\ Visible(id)'.messages[Len(Visible(id)'.messages)].content.text = "hint"
                   /\ Visible(id)'.messages[Len(Visible(id)'.messages)].metadata
                        = [type |-> "hint", questionId |-> response'.questionId]
                   /\ Visible(id)'.currentQuestion = Visible(id).currentQuestion
                   /\ Visible(id)'.questionsAsked = Visible(id).questionsAsked
                   /\ Visible(id)'.status = Visible(id).status
                   /\ Visible(id)'.analysisCache = Visible(id).analysisCache]_vars

\* A hint was issued for question 2, the current one, after question 1.
C18_Witness ==
  /\ response.op = "RequestHint"
  /\ response.ok
  /\ response.questionId = 2
  /\ CurrentQuestionId(Visible(1)) = 2
  /\ Visible(1).messages[Len(Visible(1).messages)].metadata
       = [type |-> "hint", questionId |-> 2]

\* The store backend raises on connect or on a read: the client is the Redis
\* client and the server is unreachable or fails the commands.
BackendRaises == instance = "redis" /\ ~useInMemory /\ redisHealth # "up"

\* C19: while the store backend raises on connect or read, getSession returns
\* absent instead of raising, and each of the seven mutations built on it
\* returns absent and writes nothing.
C19_AbsentWhenStoreRaises ==
  [][(/\ BackendRaises
      /\ response'.op \in ManagerCalls \cup {"GetSession"}
      /\ response'.sessionId \in SessionIds)
       => /\ response'.status = 404
          /\ ~response'.ok
          /\ rds' = rds
          /\ mem' = mem]_vars

\* In production a session was written to Redis, the server went down, and a
\* mutation of the session returned absent.
C19_Witness ==
  /\ nodeEnv = "production"
  /\ redisHealth = "down"
  /\ rds[1] # NULL
  /\ response.op = "endSession"
  /\ response.status = 404

\* The item the backend in use holds for a session, expired or not.
ActiveItem(id) == IF instance = "memory" THEN mem[id] ELSE rds[id]

\* The time of the last write of a stored item: saveSession stamps it on the
\* session as lastActivity in the statement before the write.
LastWrite(item) == JSONparse(item.value).lastActivity

\* Every stored item expires one full TTL after its last write.
ExpiryFromLastWrite ==
  \A id \in SessionIds :
    /\ mem[id] # NULL => mem[id].expiry = LastWrite(mem[id]) + SessionTtlMs
    /\ rds[id] # NULL => rds[id].expiry = LastWrite(rds[id]) + SessionTtlMs

\* The last read was answered by the backend and returned the session exactly
\* when an item is stored and no more than the TTL has passed since its write.
ReadWithinTtl ==
  (/\ response.op = "GetSession"
   /\ response.sessionId \in SessionIds
   /\ instance = "memory" \/ redisHealth = "up") =>
    (response.ok <=>
       IF ActiveItem(response.sessionId) = NULL THEN FALSE
       ELSE now - LastWrite(ActiveItem(response.sessionId)) <= SessionTtlMs)

\* C20: expiry is sliding from the last write: each save sets the expiry to
\* the full TTL from that write, a read never extends it (it leaves every
\* stored item as it is, or drops an expired one), and a read returns the
\* session if and only if no more than the TTL has passed since its last write.
C20_SlidingExpiry ==
  [][/\ ExpiryFromLastWrite'
     /\ ReadWithinTtl'
     /\ response'.op = "GetSession" =>
          /\ rds' = rds
          /\ \A id \in SessionIds : mem'[id] = mem[id] \/ mem'[id] = NULL]_vars

\* A session whose last write was one TTL after the first instant is still
\* returned after the TTL has passed since the first instant.
C20_Witness ==
  /\ now = SessionTtlMs + 1
  /\ response.op = "GetSession"
  /\ response.ok
  /\ ActiveItem(response.sessionId) # NULL
  /\ JSONparse(ActiveItem(response.sessionId).value).status = "analyzing"
  /\ LastWrite(ActiveItem(response.sessionId)) = SessionTtlMs

\* The caller whose write was the rank-th to complete.
WriterOfRank(rank) == CHOOSE caller \in Callers : inFlight[caller].order = rank

\* Both callers are done, each read before either wrote, and both changed
\* the same session.
BothReadFirst ==
  /\ \A caller \in Callers :
       inFlight[caller].stage = "done" /\ inFlight[caller].writesSeen = 0
  /\ inFlight[1].sessionId = inFlight[2].sessionId

\* C21: when two mutations of one session both read before either writes,
\* the stored session after both is the later writer's result computed from
\* the session both read, and the earlier writer's change is not in it: a
\* field only the earlier writer assigned is as it was read, and a message
\* the earlier writer added is not in the log.
C21_LaterWriteWins ==
  BothReadFirst =>
    \E earlier \in {inFlight[WriterOfRank(1)]}, later \in {inFlight[WriterOfRank(2)]} :
    \E stored \in {ActiveItem(later.sessionId)} :
      /\ stored # NULL
      /\ earlier.session = later.session
      /\ JSONparse(stored.value) =
           [Mutated(later.call, later.session, WriterOfRank(2))
              EXCEPT !.lastActivity = now]
      /\ \A field \in Touched(earlier.call) \ Touched(later.call) :
           JSONparse(stored.value)[field] = earlier.session[field]
      /\ \A i \in 1..Len(JSONparse(stored.value).messages) :
           JSONparse(stored.value).messages[i] # CallerMessage(WriterOfRank(1))

\* A message one caller added is lost to the question the other set.
C21_Witness ==
  /\ BothReadFirst
  /\ inFlight[WriterOfRank(1)].call = "addMessage"
  /\ inFlight[WriterOfRank(2)].call = "setCurrentQuestion"
  /\ inFlight[WriterOfRank(1)].saved.messages # inFlight[WriterOfRank(2)].saved.messages

\* The lines startLine..endLine of a content, when the range lies inside it.
InsideFile(content, startLine, endLine) ==
  1 <= startLine /\ startLine <= endLine /\ endLine <= Len(content)

\* The descriptors that name a cached file and a range inside it.
ValidDescriptors(analysis, descriptors) ==
  SelectSeq(descriptors,
            LAMBDA d : IF getFileContent(analysis, d.file) = NoContent THEN FALSE
                       ELSE InsideFile(getFileContent(analysis, d.file),
                                       d.startLine, d.endLine))

\* C22: every snippet of a generated question names a file of the analysis
\* cache, its range lies inside that file, and its code is the lines of the
\* range; a descriptor that names a missing file or a range outside the file
\* gives no snippet.
C22_SnippetsLieInCachedFiles ==
  generation.question # NULL =>
    /\ \A i \in 1..Len(generation.question.codeSnippets) :
         \E s \in {generation.question.codeSnippets[i]} :
           /\ getFileContent(generation.analysis, s.file) # NoContent
           /\ InsideFile(getFileContent(generation.analysis, s.file),
                         s.startLine, s.endLine)
           /\ s.code = SubSeq(getFileContent(generation.analysis, s.file),
                              s.startLine, s.endLine)
    /\ Len(ValidDescriptors(generation.analysis, generation.generated.codeSnippets)) > 0
         => Len(generation.question.codeSnippets)
              = Len(ValidDescriptors(generation.analysis,
                                     generation.generated.codeSnippets))

\* The descriptors of the reply give no snippet: none names a cached file and
\* a range inside it.
NoDescriptorSurvives ==
  ValidDescriptors(generation.analysis, generation.generated.codeSnippets) = <<>>

\* The files of relatedFiles that have cached content, in order.
RelatedWithContent ==
  SelectSeq(generation.generated.relatedFiles,
            LAMBDA file : getFileContent(generation.analysis, file) # NoContent)

\* C23: when no descriptor survives, the question has exactly one snippet,
\* the first min(30, line count) lines of the first related file that has
\* cached content, and no snippet when no related file has cached content.
C23_FallbackToFirstRelatedFile ==
  (generation.question # NULL /\ NoDescriptorSurvives) =>
    IF RelatedWithContent = <<>> THEN generation.question.codeSnippets = <<>>
    ELSE \E content \in {getFileContent(generation.analysis, Head(RelatedWithContent))} :
           /\ Len(generation.question.codeSnippets) = 1
           /\ generation.question.codeSnippets[1].file = Head(RelatedWithContent)
           /\ generation.question.codeSnippets[1].startLine = 1
           /\ generation.question.codeSnippets[1].endLine = Min(FallbackLines, Len(content))
           /\ generation.question.codeSnippets[1].code =
                SubSeq(content, 1, Min(FallbackLines, Len(content)))

\* The same statement for the replies whose descriptors all name files
\* without cached content, which the loop over the descriptors does drop.
C23_FallbackWhenFilesMissing ==
  (/\ generation.question # NULL
   /\ \A i \in 1..Len(generation.generated.codeSnippets) :
        getFileContent(generation.analysis,
                       generation.generated.codeSnippets[i].file) = NoContent) =>
    IF RelatedWithContent = <<>> THEN generation.question.codeSnippets = <<>>
    ELSE \E content \in {getFileContent(generation.analysis, Head(RelatedWithContent))} :
           generation.question.codeSnippets =
             <<[file |-> Head(RelatedWithContent), startLine |-> 1,
                endLine |-> Min(FallbackLines, Len(content)),
                code |-> SubSeq(content, 1, Min(FallbackLines, Len(content))),
                annotations |-> <<>>]>>

\* A path without the slash at its front and the slash at its end.
Stripped(path) ==
  SubSeq(path, IF Len(path) > 0 /\ path[1] = Slash THEN 2 ELSE 1,
         IF Len(path) > 1 /\ path[Len(path)] = Slash THEN Len(path) - 1 ELSE Len(path))

\* The scope is empty, or the path is a prefix of a requested directory, or a
\* requested directory is a prefix of the path.
InScope(selectedDirectories, path) ==
  \/ selectedDirectories = <<>>
  \/ \E i \in 1..Len(selectedDirectories) :
       \/ IsPrefix(Stripped(path), Stripped(selectedDirectories[i]))
       \/ IsPrefix(Stripped(selectedDirectories[i]), Stripped(path))

\* The hosting API answered the request for the repository and every listing.
ListingsSucceed ==
  /\ ingestion.api.repo = "ok"
  /\ \A path \in RepoDirs : ingestion.api.list[path] = "ok"

\* C24: during an ingestion whose listings succeed, a directory of the tree
\* that is not an excluded one is traversed (its listing is asked for) if and
\* only if the scope is empty, or the path is a prefix of a requested
\* directory, or a requested directory is a prefix of the path, slashes at the
\* front and the end stripped.
C24_TraversedIffInScope ==
  (ingestion.result # NULL /\ ListingsSucceed) =>
    \A path \in RepoDirs \ {DirBin} :
      (path \in ingestion.result.listed)
        <=> InScope(ingestion.selectedDirectories, path)

\* The scope a/b: a is traversed as a prefix of it, a/b as the directory
\* itself, and ab, which is neither, is not.
C24_Witness ==
  /\ ingestion.result # NULL
  /\ ListingsSucceed
  /\ ingestion.selectedDirectories = <<DirAB>>
  /\ DirA \in ingestion.result.listed
  /\ DirAB \in ingestion.result.listed
  /\ DirAb \notin ingestion.result.listed

\* The directory a file lies in.
DirOf(file) ==
  IF \A i \in 1..Len(file) : file[i] # Slash THEN RootPath
  ELSE SubSeq(file, 1, (CHOOSE i \in 1..Len(file) :
                          file[i] = Slash /\ \A j \in (i + 1)..Len(file) : file[j] # Slash) - 1)

\* C25: when the read of one file fails during an ingestion whose listings
\* succeed, fetchRepository does not fail and returns, once each, exactly the
\* files that lie in a directory of the scope, are not excluded and whose read
\* gave content: only the file whose read failed is dropped.
C25_FailedReadDropsOneFile ==
  (/\ ingestion.result # NULL
   /\ ListingsSucceed
   /\ \E file \in RepoFiles : ingestion.api.read[file] = "error") =>
    /\ ~ingestion.result.threw
    /\ {ingestion.result.files[i] : i \in 1..Len(ingestion.result.files)} =
         {file \in RepoFiles \ {FileBinM} :
            /\ InScope(ingestion.selectedDirectories, DirOf(file))
            /\ ingestion.api.read[file] = "ok"}
    /\ Cardinality({ingestion.result.files[i] : i \in 1..Len(ingestion.result.files)})
         = Len(ingestion.result.files)

\* The read of a/g failed in an ingestion of the whole repository, and the
\* files listed after it, in its directory and in the others, are returned.
C25_Witness ==
  /\ ingestion.result # NULL
  /\ ListingsSucceed
  /\ ingestion.selectedDirectories = <<>>
  /\ ingestion.api.read[FileABH] = "error"
  /\ ingestion.result.files = <<FileAG, FileF, FileAbK>>

\* C26: when the listing of the top-level path fails, with whatever error,
\* fetchRepository fails with the not-found error.
C26_TopLevelFailureIsNotFound ==
  (/\ ingestion.result # NULL
   /\ ingestion.api.repo = "ok"
   /\ ingestion.api.list[RootPath] # "ok") =>
    /\ ingestion.result.threw
    /\ ingestion.result.message = "Repository or path not found"

\* The snippets the last request that annotated handed on: those of the
\* session's current question after NextQuestion, those of the evaluation
\* message after SubmitAnswer.
HandedOn ==
  IF annotateCall.op = "NextQuestion"
  THEN Visible(response.sessionId).currentQuestion.codeSnippets
  ELSE Visible(response.sessionId).messages[Len(Visible(response.sessionId).messages)]
         .metadata.codeSnippets

\* C27: whatever the annotation calls of a request do, NextQuestion and
\* SubmitAnswer succeed, and the snippets handed on are as many as were given,
\* in the same order, each with its file, range and code unchanged; a snippet
\* whose annotation call failed is handed on exactly as it was given.
C27_AnnotationNeverFailsCaller ==
  (annotateCall.op # "none" /\ response.op = annotateCall.op) =>
    /\ response.ok
    /\ Len(HandedOn) = Len(annotateCall.snippets)
    /\ \A i \in 1..Len(annotateCall.snippets) :
         /\ HandedOn[i].file = annotateCall.snippets[i].file
         /\ HandedOn[i].startLine = annotateCall.snippets[i].startLine
         /\ HandedOn[i].endLine = annotateCall.snippets[i].endLine
         /\ HandedOn[i].code = annotateCall.snippets[i].code
         /\ annotateCall.replies[i].threw => HandedOn[i] = annotateCall.snippets[i]

\* An answer was evaluated on a question of two snippets, one annotated when
\* the question was issued, and every annotation call of the answer failed.
C27_Witness ==
  /\ annotateCall.op = "SubmitAnswer"
  /\ response.op = "SubmitAnswer"
  /\ response.ok
  /\ Len(annotateCall.snippets) = 2
  /\ annotateCall.snippets[1].annotations # <<>>
  /\ \A i \in 1..2 : annotateCall.replies[i].threw

\* C28: after a successful Analyze the session's analysis cache is the
\* analysis of this ingestion, its files exactly those the ingestion
\* returned, none kept from an earlier cache, and its status is active.
C28_AnalysisReplacedWholesale ==
  (response.op = "Analyze" /\ response.ok) =>
    /\ Visible(response.sessionId) # NULL
    /\ Visible(response.sessionId).status = "active"
    /\ Visible(response.sessionId).analysisCache # NULL
    /\ Visible(response.sessionId).analysisCache.fileContents = ingestion.result.files

\* A session analyzed on the whole repository (four files) was analyzed again
\* on the scope a/b, and its cache holds the three files of that ingestion.
C28_Witness ==
  /\ response.op = "Analyze"
  /\ response.ok
  /\ CountMessages(Visible(1).messages, "analysis complete") = 2
  /\ Visible(1).messages[2].content.scope = "entire repo"
  /\ ingestion.selectedDirectories = <<DirAB>>
  /\ Visible(1).analysisCache.fileContents = <<FileABH, FileAG, FileF>>

\* C29: when neither FORCE_REDIS nor USE_IN_MEMORY_STORE is set, sessions are
\* stored in the in-memory store, in development and in production: no
\* session is written to the Redis server.
C29_InMemoryUnlessConfigured ==
  (~forceRedis /\ ~useInMemoryStoreEnv) => \A id \in SessionIds : rds[id] = NULL

\* C30: after an Analyze request that found the session and failed, for an
\* ingestion error, no files or an analyzer error, the stored status of the
\* session is selecting_dirs.
C30_FailedAnalyzeRollsBack ==
  (response.op = "Analyze" /\ ~response.ok /\ response.status # 404) =>
    StatusOf(Visible(response.sessionId)) = "selecting_dirs"

\* C33: when the evaluation call of SubmitAnswer fails, the request reports
\* failure and the stored session is as it was before the request: the
\* current question is the same and no message has been appended.
C33_FailedEvaluationLeavesSession ==
  [][\A id \in SessionIds :
       (response'.op = "SubmitAnswer" /\ response'.status = 500 /\
        response'.sessionId = id) =>
         /\ ~response'.ok
         /\ CurrentQuestionId(Visible(id)') = CurrentQuestionId(Visible(id))
         /\ Visible(id)'.messages = Visible(id).messages]_vars

\* C36: whatever gets, writes with a TTL, deletes and clock advances are
\* made, each call on the in-process store returns what the reference TTL
\* store returns: get the value last written until its TTL has elapsed and
\* absent afterwards, del 1 exactly when the key was present and unexpired.
C36_MemoryStoreIsTtlStore ==
  kv.op # "none" => kv.result = kv.expected

\* The calls made for an identifier that were allowed in the window that
\* ends at resetTime.
AllowedInWindow(identifier, resetTime) ==
  {i \in 1..Len(rate.calls) :
     /\ rate.calls[i].identifier = identifier
     /\ rate.calls[i].result.allowed
     /\ rate.calls[i].result.resetTime = resetTime}

\* The last call made for the identifier before the i-th call, 0 if none.
PreviousCall(i) ==
  IF \E j \in 1..(i - 1) : rate.calls[j].identifier = rate.calls[i].identifier
  THEN CHOOSE j \in 1..(i - 1) :
         /\ rate.calls[j].identifier = rate.calls[i].identifier
         /\ \A k \in (j + 1)..(i - 1) : rate.calls[k].identifier # rate.calls[i].identifier
  ELSE 0

\* C38: for a limit of at least one request and any sequence of calls, at
\* most maxRequests calls of an identifier are allowed in one window, every
\* allowed call lies between the window's first allowed call and its
\* resetTime, remaining is never negative, and the first call for an
\* identifier, or the first after the previous window has passed, is allowed
\* and starts a window of windowMs with one request counted.
C38_RateLimitPerWindow ==
  \A i \in 1..Len(rate.calls) :
    \E call \in {rate.calls[i]} :
      /\ call.result.remaining >= 0
      /\ call.result.allowed =>
           /\ Cardinality(AllowedInWindow(call.identifier, call.result.resetTime))
                <= rate.maxRequests
           /\ call.result.resetTime - rate.windowMs <= call.at
           /\ call.at <= call.result.resetTime
      /\ (IF PreviousCall(i) = 0 THEN TRUE
          ELSE rate.calls[PreviousCall(i)].result.resetTime < call.at) =>
           /\ call.result.allowed
           /\ call.result.remaining = rate.maxRequests - 1
           /\ call.result.resetTime = call.at + rate.windowMs

\* A second window of an identifier: the limit was reached and a call
\* refused in the first, and a call after its resetTime is allowed again.
C38_Witness ==
  /\ Len(rate.calls) = 4
  /\ rate.maxRequests = 2
  /\ \A i \in 1..4 : rate.calls[i].identifier = "user:ip"
  /\ rate.calls[2].result.allowed /\ rate.calls[2].result.remaining = 0
  /\ ~rate.calls[3].result.allowed
  /\ rate.calls[4].result.allowed
  /\ rate.calls[4].result.resetTime > rate.calls[1].result.resetTime

\* The invocations of fn made so far that failed with an error worth a retry.
RetryableFailure(i) == retry.log[i].status = 429 \/ retry.log[i].status >= 500

RetryDone == retry.pc \in {"returned", "threw"}

\* What holds of a call of retryWithBackoff at every instant.
RetryShape ==
  /\ Len(retry.log) <= retry.opts.maxAttempts
  /\ \A i \in 1..(Len(retry.log) - 1) : RetryableFailure(i)
  /\ retry.pc = "returned" =>
       retry.log[Len(retry.log)].status = 200 /\ retry.settled = Len(retry.log)
  /\ retry.pc = "threw" =>
       /\ retry.log[Len(retry.log)].status # 200
       /\ retry.settled = Len(retry.log)
       /\ ~RetryableFailure(Len(retry.log)) \/ Len(retry.log) = retry.opts.maxAttempts
  /\ ~RetryDone =>
       /\ \A i \in 1..Len(retry.log) : RetryableFailure(i)
       /\ Len(retry.log) < retry.opts.maxAttempts
       /\ Len(retry.delays) = Len(retry.log)
  /\ RetryDone => Len(retry.delays) = Len(retry.log) - 1
  /\ \A k \in 1..Len(retry.delays) :
       \E grown \in {retry.opts.initialDelayMs * Pow(retry.opts.backoffMultiplier, k - 1)} :
         retry.delays[k] = IF grown < retry.opts.maxDelayMs THEN grown
                           ELSE retry.opts.maxDelayMs

\* C39: a call of retryWithBackoff ends, after at most maxAttempts
\* invocations of fn: it returns the value of the first invocation that
\* succeeds, rethrows the first error that is not retryable without another
\* attempt, rethrows the last error when maxAttempts invocations failed, and
\* the delay computed before attempt k+1 is
\* min(initialDelayMs * backoffMultiplier^(k-1), maxDelayMs).
C39_RetryEndsWithinMaxAttempts == []RetryShape /\ <>RetryDone

\* Three retryable failures, the third delay cut to maxDelayMs, and the
\* fourth error rethrown.
C39_Witness ==
  /\ retry.pc = "threw"
  /\ retry.opts.maxAttempts = 4
  /\ Len(retry.log) = 4
  /\ retry.delays = <<1000, 2000, 3000>>

\* The file lies under the directory: the directory, slashes at its front
\* and end stripped, followed by a slash is a prefix of the file's path (the
\* root, an empty path, holds every file).
LiesUnder(file, dir) ==
  IF Stripped(dir) = <<>> THEN TRUE ELSE IsPrefix(Stripped(dir) \o <<Slash>>, file)

\* C37: when a non-empty scope is requested, every file an ingestion returns
\* lies under one of the requested directories: files at the root and files
\* of directories whose name only begins like a requested one are not
\* returned.
C37_FilesLieUnderScope ==
  (/\ ingestion.result # NULL
   /\ ingestion.selectedDirectories # <<>>) =>
    \A i \in 1..Len(ingestion.result.files) :
      \E j \in 1..Len(ingestion.selectedDirectories) :
        LiesUnder(ingestion.result.files[i], ingestion.selectedDirectories[j])

\* The current question of a stored session is the last one it was asked.
CurrentIsLastAsked ==
  \A id \in SessionIds :
    CurrentQuestionId(Visible(id)) # NoId =>
      /\ Len(Visible(id).questionsAsked) > 0
      /\ Visible(id).questionsAsked[Len(Visible(id).questionsAsked)]
           = CurrentQuestionId(Visible(id))

\* A request that completed a setCurrentQuestion write makes questionsAsked
\* one longer, no other request changes its length, and a new session starts
\* with none.
AskedCountsWrites ==
  \A id \in SessionIds :
    Visible(id)' # NULL =>
      Len(Visible(id)'.questionsAsked) =
        (IF Visible(id) = NULL THEN 0 ELSE Len(Visible(id).questionsAsked))
        + (IF response'.op = "NextQuestion" /\ response'.ok /\ response'.sessionId = id
           THEN 1 ELSE 0)

\* C34: in every stored session with a current question, the id of the
\* current question is the last element of questionsAsked; and, requests
\* being handled one after the other, the length of questionsAsked is the
\* number of setCurrentQuestion writes completed on the session.
C34_CurrentQuestionIsLastAsked == []CurrentIsLastAsked /\ [][AskedCountsWrites]_vars

\* The second question of a session is its current one.
C34_Witness ==
  /\ response.op = "NextQuestion" /\ response.ok
  /\ Visible(1) # NULL
  /\ Visible(1).questionsAsked = <<1, 2>>
  /\ CurrentQuestionId(Visible(1)) = 2

\* An active session has an analysis.
ActiveHasAnalysis ==
  \A id \in SessionIds :
    StatusOf(Visible(id)) = "active" => Visible(id).analysisCache # NULL

\* No request takes the analysis of a stored session away.
AnalysisStays ==
  \A id \in SessionIds :
    (IF Visible(id) = NULL THEN FALSE ELSE Visible(id).analysisCache # NULL) =>
      (IF Visible(id)' = NULL THEN TRUE ELSE Visible(id)'.analysisCache # NULL)

\* C35: in every stored session, status active implies a non-null
\* analysisCache; and, requests being handled one after the other, once the
\* analysisCache of a session is non-null no request sets it back to null.
C35_ActiveHasAnalysisCache == []ActiveHasAnalysis /\ [][AnalysisStays]_vars

\* A session that was analyzed is given a new scope and keeps its analysis
\* while it waits for the next one.
C35_Witness ==
  /\ response.op = "SetDirectories" /\ response.ok
  /\ Visible(1) # NULL
  /\ Visible(1).status = "analyzing"
  /\ Visible(1).analysisCache # NULL

\* C31: a SubmitAnswer for question q that succeeds clears the current
\* question only if it is still q: when a NextQuestion of the session
\* completed while the SubmitAnswer waited for its evaluation, the newer
\* question is still the current one after the SubmitAnswer.
C31_AnswerClearsOnlyItsQuestion ==
  [][\A id \in SessionIds :
       (/\ suspended.op = "SubmitAnswer"
        /\ suspended.sessionId = id
        /\ response'.op = "SubmitAnswer" /\ response'.ok
        /\ CurrentQuestionId(Visible(id)) # NoId
        /\ CurrentQuestionId(Visible(id)) # suspended.questionId)
         => CurrentQuestionId(Visible(id)') = CurrentQuestionId(Visible(id))]_vars

\* The closing message of a session.
IsClosingMessage(message) ==
  message.content.text = "ended" /\ message.metadata.type = "system"

\* C32: when EndSession completed while a NextQuestion of the session that
\* had passed its status check was waiting for its question, then after both
\* the session has status ended, no current question, and the closing
\* message as its last message.
C32_EndedSessionStaysClosed ==
  [][\A id \in SessionIds :
       (/\ suspended.op = "NextQuestion"
        /\ suspended.sessionId = id
        /\ response'.op = "NextQuestion"
        /\ StatusOf(Visible(id)) = "ended"
        /\ IsClosingMessage(Visible(id).messages[Len(Visible(id).messages)]))
         => /\ StatusOf(Visible(id)') = "ended"
            /\ Visible(id)'.currentQuestion = NULL
            /\ IsClosingMessage(Visible(id)'.messages[Len(Visible(id)'.messages)])]_vars

====
